---- MODULE Spec2Model ----
(***************************************************************************)
(* A model of the real-time synchronisation core of spin.io:               *)
(*   - the server: the room registry of server.ts and the GameRoom room    *)
(*     simulation (join / leave / host transfer / start / fixed tick);      *)
(*   - the client: NetworkSystem (prediction and reconciliation), the      *)
(*     GameStateManager and the two engines.                               *)
(*                                                                         *)
(* Numbers.  The code computes with IEEE doubles; the model computes with  *)
(* integers in fixed point:                                                *)
(*   lengths (positions, sizes, radii, dot values)  1/32 pixel  (U)        *)
(*   velocities, speeds                            pixel / second          *)
(*   times                                         millisecond             *)
(*   rotation                                      1/1000 turn             *)
(* Math.random() is a fixed cyclic table of sixteenths (RandomTable) read   *)
(* at the index rng; the seed (the first index) is chosen in Init.         *)
(***************************************************************************)
EXTENDS Integers, Sequences, FiniteSets, TLC

(***************************************************************************)
(* Bounds of the model                                                     *)
(***************************************************************************)
NumSockets == 4      \* connections that ever reach the server
MaxRooms == 1        \* GameRoom instances ever constructed
MaxTicks == 4        \* ticks of one room that are explored
NumSeeds == 2        \* seeds of Math.random() that are explored
MaxJoins == 4        \* JOIN_ROOM messages that are explored
GamePlayers == 2     \* players of the game whose ticks are explored

(***************************************************************************)
(* GAME_CONFIG of the server (types.ts)                                    *)
(***************************************************************************)
U == 2 * 16                          \* length units per pixel
ARENA_WIDTH == 800 * U
ARENA_HEIGHT == 600 * U
SPINNER_INITIAL_SIZE == 25 * U
SPINNER_INITIAL_SPEED == 200
DOT_COUNT == 25
DOT_MIN_SIZE == 8 * U
DOT_MAX_SIZE == 15 * U
DOT_GROWTH_MIN == 1 * U
DOT_GROWTH_MAX == 5 * U
DOT_RESPAWN_MARGIN == 50 * U
MAX_PLAYERS_PER_ROOM == 4

(***************************************************************************)
(* Arithmetic helpers                                                      *)
(***************************************************************************)
Abs(a) == IF a < 0 THEN -a ELSE a
Max(a, b) == IF a >= b THEN a ELSE b
Min(a, b) == IF a <= b THEN a ELSE b
\* the quotient a / b (b > 0) rounded toward zero
Div(a, b) == IF a >= 0 THEN a \div b ELSE -((-a) \div b)
\* floor of the square root
RECURSIVE SqrtBits(_, _, _)
SqrtBits(n, r, b) ==
    IF b = 0 THEN r
    ELSE IF (r + b) * (r + b) <= n THEN SqrtBits(n, r + b, b \div 2)
         ELSE SqrtBits(n, r, b \div 2)
Sqrt(n) == SqrtBits(n, 0, 16384)

createVector2(x, y) == [x |-> x, y |-> y]
add(a, b) == createVector2(a.x + b.x, a.y + b.y)

(***************************************************************************)
(* Math.random(): sixteenths, read cyclically                              *)
(***************************************************************************)
RandomTable == <<10, 11, 6, 5, 0, 15>>
RandomAt(i) == RandomTable[(i % Len(RandomTable)) + 1]
\* randomFloat(min, max) with the i-th draw
randomFloat(i, min, max) == min + ((max - min) * RandomAt(i)) \div 16

(***************************************************************************)
(* State                                                                   *)
(***************************************************************************)
VARIABLES
    gameRooms,     \* code -> the GameRoom object constructed with that code (NoRoom: none yet)
    rooms,         \* server.ts `rooms`: the codes registered in the Map
    playerRooms,   \* server.ts `playerRooms`: socket id -> room code (0: no entry)
    sockets,       \* socket id -> "open" | "closed"
    rng,           \* number of Math.random() draws made so far (index into RandomTable)
    out,           \* the events emitted by the handler that ran last
    joins,         \* JOIN_ROOM messages handled so far (bounds the exploration)
    currentEngineType, \* GameEngineAdapter: "legacy" | "modular" ("none": no adapter built)
    legacyEngine,  \* GameEngineAdapter.legacyEngine: the GameState of the GameEngine (NoEngine: null)
    modularEngine, \* GameEngineAdapter.modularEngine: the ModularGameEngine (NoEngine: null)
    crng,          \* Math.random() draws made by the client so far
    now,           \* Date.now() of the client, milliseconds
    calls,         \* calls made to the engine so far, by kind (bounds the exploration)
    lagCompensation, \* the LagCompensationManager: worldHistory and inputBuffer
    serverNow,     \* Date.now() of the server, milliseconds
    returned,      \* the value returned by the last call made to the LagCompensationManager
                   \* or to the SpatialGrid
    spatialGrid,   \* SpatialGrid.grid: cell <<gridX, gridY>> -> the entity ids added to it
    inserted       \* entity id -> the circle [x, y, radius] it was added to the grid with

serverVars == <<gameRooms, rooms, playerRooms, sockets, rng, out, joins>>
clientVars == <<currentEngineType, legacyEngine, modularEngine, crng, now, calls>>
lagVars == <<lagCompensation, serverNow, returned>>
gridVars == <<spatialGrid, inserted>>
vars == <<gameRooms, rooms, playerRooms, sockets, rng, out, joins,
          currentEngineType, legacyEngine, modularEngine, crng, now, calls,
          lagCompensation, serverNow, returned, spatialGrid, inserted>>

NoEngine == [phase |-> "null"]
NoCalls == [update |-> 0, startGame |-> 0, input |-> 0, resetToMenu |-> 0, server |-> 0]
\* no GameEngineAdapter has been constructed
\* the constructor of the LagCompensationManager: both arrays empty
NewLagCompensationManager == [worldHistory |-> <<>>, inputBuffer |-> <<>>]
NoReturn == [call |-> "none"]

\* a LagCompensationManager that nothing has called yet
NoLag ==
    /\ lagCompensation = NewLagCompensationManager
    /\ serverNow = 0
    /\ returned = NoReturn

\* new SpatialGrid(150): no cell yet
NoGrid ==
    /\ spatialGrid = <<>>
    /\ inserted = <<>>

NoClient ==
    /\ currentEngineType = "none"
    /\ legacyEngine = NoEngine
    /\ modularEngine = NoEngine
    /\ crng = 0
    /\ now = 0
    /\ calls = NoCalls

NoRoom == [code |-> 0]
Sockets == 1..NumSockets
Codes == 1..MaxRooms
Seeds == 0..(NumSeeds - 1)
DeltaMs == {20}                     \* Date.now() differences between two ticks
Directions == {createVector2(0, 1), createVector2(0, -1), createVector2(-1, 0)}

\* the payload of an event that carries no game state
NoSnapshot == [players |-> <<>>, dots |-> <<>>, timeElapsed |-> 0]

\* an emitted socket.io event
Event(type, to, code, s, error, who) ==
    [type |-> type, to |-> to, room |-> code, socket |-> s, error |-> error, player |-> who,
     state |-> NoSnapshot]

SeqToSet(q) == {q[i] : i \in 1..Len(q)}
RemoveAt(q, i) == SubSeq(q, 1, i - 1) \o SubSeq(q, i + 1, Len(q))
Without(q, v) == SelectSeq(q, LAMBDA e : e # v)
\* Map.set: a new key goes last, an existing key keeps its place
MapSetKey(q, k) == IF k \in SeqToSet(q) THEN q ELSE Append(q, k)
Put(f, k, v) == [i \in (DOMAIN f) \cup {k} |-> IF i = k THEN v ELSE f[i]]
Drop(f, k) == [i \in (DOMAIN f) \ {k} |-> f[i]]

(***************************************************************************)
(* GameRoom                                                                *)
(***************************************************************************)
\* constructor: an empty room in the lobby phase, no timer
NewGameRoom(code) ==
    [code |-> code, host |-> 0,
     players |-> <<>>,            \* key order of room.players
     gsPlayers |-> <<>>,          \* key order of room.gameState.players
     pd |-> <<>>,                 \* the PlayerData objects, by id (shared by both Maps)
     isPlaying |-> FALSE, phase |-> "lobby",
     dots |-> <<>>, timeElapsed |-> 0,
     gameLoopInterval |-> FALSE,  \* the handle is non-null
     timers |-> 0,                \* intervals set and not cleared
     ticks |-> 0]                 \* ticks run so far (bounds the exploration)

\* spawn of the k-th joiner (k = players.size): angle k * 90 degrees, radius 150
JoinOffset(k) ==
    CASE k = 0 -> createVector2(150 * U, 0)
      [] k = 1 -> createVector2(0, 150 * U)
      [] k = 2 -> createVector2(-150 * U, 0)
      [] OTHER -> createVector2(0, -150 * U)

\* addPlayer once the two checks have passed: the new PlayerData enters both Maps
admitPlayer(r, id, i) ==
    LET isHost == Len(r.players) = 0
        off == JoinOffset(Len(r.players))
        safeMargin == SPINNER_INITIAL_SIZE + 20 * U
        rawX == ARENA_WIDTH \div 2 + off.x + randomFloat(i, -30 * U, 30 * U)
        rawY == ARENA_HEIGHT \div 2 + off.y + randomFloat(i + 1, -30 * U, 30 * U)
        spawnX == Max(safeMargin, Min(ARENA_WIDTH - safeMargin, rawX))
        spawnY == Max(safeMargin, Min(ARENA_HEIGHT - safeMargin, rawY))
        spinner == [position |-> createVector2(spawnX, spawnY),
                    velocity |-> createVector2(0, 0),
                    targetDirection |-> createVector2(0, 0),
                    size |-> SPINNER_INITIAL_SIZE,
                    rotation |-> 0,
                    maxSpeed |-> SPINNER_INITIAL_SPEED]
        playerData == [id |-> id, spinner |-> spinner,
                       score |-> SPINNER_INITIAL_SIZE,
                       isAlive |-> TRUE, isHost |-> isHost]
    IN [room |-> [r EXCEPT !.host = IF isHost THEN id ELSE @,
                           !.players = MapSetKey(@, id),
                           !.gsPlayers = MapSetKey(@, id),
                           !.pd = Put(@, id, playerData)],
        success |-> TRUE, error |-> "", draws |-> 2]

Rejected(r, error) == [room |-> r, success |-> FALSE, error |-> error, draws |-> 0]

\* addPlayer without the capacity check
addPlayer_uncapped(r, id, i) ==
    IF r.isPlaying THEN Rejected(r, "Game already in progress")
    ELSE admitPlayer(r, id, i)

\* addPlayer without the check of a game in progress
addPlayer_midgame(r, id, i) ==
    IF Len(r.players) >= MAX_PLAYERS_PER_ROOM THEN Rejected(r, "Room is full")
    ELSE admitPlayer(r, id, i)

addPlayer(r, id, i) ==
    IF Len(r.players) >= MAX_PLAYERS_PER_ROOM THEN Rejected(r, "Room is full")
    ELSE IF r.isPlaying THEN Rejected(r, "Game already in progress")
    ELSE admitPlayer(r, id, i)

\* removePlayer that deletes the player from room.players only
removePlayer_onetable(r, id) ==
    IF id \notin SeqToSet(r.players)
    THEN [room |-> r, removed |-> FALSE]
    ELSE
      LET wasHost == r.host = id
          left == Without(r.players, id)
          r1 == [r EXCEPT !.players = left]
      IN [room |-> IF wasHost /\ Len(left) > 0
                   THEN [r1 EXCEPT !.host = left[1], !.pd[left[1]].isHost = TRUE]
                   ELSE r1,
          removed |-> TRUE]

\* removePlayer without the test that the player is in the room
removePlayer_unchecked(r, id) ==
    LET wasHost == r.host = id
        left == Without(r.players, id)
        r1 == [r EXCEPT !.players = left,
                        !.gsPlayers = Without(@, id),
                        !.pd = Drop(@, id)]
    IN [room |-> IF wasHost /\ Len(left) > 0
                 THEN [r1 EXCEPT !.host = left[1], !.pd[left[1]].isHost = TRUE]
                 ELSE r1,
        removed |-> TRUE]

\* removePlayer that hands the host role to the latest of the remaining players
removePlayer_latest(r, id) ==
    IF id \notin SeqToSet(r.players)
    THEN [room |-> r, removed |-> FALSE]
    ELSE
      LET wasHost == r.host = id
          left == Without(r.players, id)
          r1 == [r EXCEPT !.players = left,
                          !.gsPlayers = Without(@, id),
                          !.pd = Drop(@, id)]
      IN [room |-> IF wasHost /\ Len(left) > 0
                   THEN [r1 EXCEPT !.host = left[Len(left)], !.pd[left[Len(left)]].isHost = TRUE]
                   ELSE r1,
          removed |-> TRUE]

removePlayer(r, id) ==
    IF id \notin SeqToSet(r.players)
    THEN [room |-> r, removed |-> FALSE]
    ELSE
      LET wasHost == r.host = id
          left == Without(r.players, id)
          r1 == [r EXCEPT !.players = left,
                          !.gsPlayers = Without(@, id),
                          !.pd = Drop(@, id)]
      IN [room |-> IF wasHost /\ Len(left) > 0
                   THEN [r1 EXCEPT !.host = left[1], !.pd[left[1]].isHost = TRUE]
                   ELSE r1,
          removed |-> TRUE]

\* one dot from four consecutive draws
NewDot(i) ==
    [position |-> createVector2(
         randomFloat(i, DOT_RESPAWN_MARGIN, ARENA_WIDTH - DOT_RESPAWN_MARGIN),
         randomFloat(i + 1, DOT_RESPAWN_MARGIN, ARENA_HEIGHT - DOT_RESPAWN_MARGIN)),
     size |-> randomFloat(i + 2, DOT_MIN_SIZE, DOT_MAX_SIZE),
     value |-> randomFloat(i + 3, DOT_GROWTH_MIN, DOT_GROWTH_MAX)]

generateDots(i) == [k \in 1..DOT_COUNT |-> NewDot(i + 4 * (k - 1))]

\* first attempt of the placement loop: angle k * 360 / n + 45 degrees, radius 150
\* (cos and sin of 45, 165 and 285 degrees times 150, in length units)
SpawnOffset(n, k) ==
    CASE n = 2 /\ k = 0 -> createVector2(3394, 3394)
      [] n = 2 /\ k = 1 -> createVector2(-3394, -3394)
      [] n = 3 /\ k = 0 -> createVector2(3394, 3394)
      [] n = 3 /\ k = 1 -> createVector2(-4636, 1242)
      [] n = 3 /\ k = 2 -> createVector2(1242, -4636)
      [] n = 4 /\ k = 0 -> createVector2(3394, 3394)
      [] n = 4 /\ k = 1 -> createVector2(-3394, 3394)
      [] n = 4 /\ k = 2 -> createVector2(-3394, -3394)
      [] n = 4 /\ k = 3 -> createVector2(3394, -3394)
      [] OTHER -> createVector2(3394, 3394)

\* every first attempt is at least minDistance from the earlier ones and inside
\* the safe margin, so the random retries and the fallback never run
generateSafeSpawnPositions(playerCount) ==
    [k \in 1..playerCount |->
        add(createVector2(ARENA_WIDTH \div 2, ARENA_HEIGHT \div 2),
            SpawnOffset(playerCount, k - 1))]

startGameLoop(r) == [r EXCEPT !.gameLoopInterval = TRUE, !.timers = @ + 1]

\* stopGameLoop without the clearInterval
stopGameLoop_keep(r) == r

stopGameLoop(r) ==
    IF r.gameLoopInterval
    THEN [r EXCEPT !.gameLoopInterval = FALSE, !.timers = @ - 1]
    ELSE r

\* the position of id in the key order q
IndexOf(q, id) == CHOOSE k \in 1..Len(q) : q[k] = id

\* beginGame that keeps the dots of the room
beginGame_nodots(r, i) ==
    LET spawnPositions == generateSafeSpawnPositions(Len(r.gsPlayers))
        reset(p) ==
            [p EXCEPT !.isAlive = TRUE,
                      !.score = SPINNER_INITIAL_SIZE,
                      !.spinner.position = spawnPositions[IndexOf(r.gsPlayers, p.id)],
                      !.spinner.velocity = createVector2(0, 0),
                      !.spinner.targetDirection = createVector2(0, 0),
                      !.spinner.size = SPINNER_INITIAL_SIZE,
                      !.spinner.maxSpeed = SPINNER_INITIAL_SPEED]
        r1 == [r EXCEPT !.phase = "playing",
                        !.dots = r.dots,
                        !.timeElapsed = 0,
                        !.isPlaying = TRUE,
                        !.pd = [id \in DOMAIN r.pd |->
                                   IF id \in SeqToSet(r.gsPlayers) THEN reset(r.pd[id])
                                   ELSE r.pd[id]]]
    IN [room |-> startGameLoop(r1), success |-> TRUE, error |-> "",
        draws |-> 4 * DOT_COUNT]

\* startGame once the three checks have passed
beginGame(r, i) ==
    LET spawnPositions == generateSafeSpawnPositions(Len(r.gsPlayers))
        reset(p) ==
            [p EXCEPT !.isAlive = TRUE,
                      !.score = SPINNER_INITIAL_SIZE,
                      !.spinner.position = spawnPositions[IndexOf(r.gsPlayers, p.id)],
                      !.spinner.velocity = createVector2(0, 0),
                      !.spinner.targetDirection = createVector2(0, 0),
                      !.spinner.size = SPINNER_INITIAL_SIZE,
                      !.spinner.maxSpeed = SPINNER_INITIAL_SPEED]
        r1 == [r EXCEPT !.phase = "playing",
                        !.dots = generateDots(i),
                        !.timeElapsed = 0,
                        !.isPlaying = TRUE,
                        !.pd = [id \in DOMAIN r.pd |->
                                   IF id \in SeqToSet(r.gsPlayers) THEN reset(r.pd[id])
                                   ELSE r.pd[id]]]
    IN [room |-> startGameLoop(r1), success |-> TRUE, error |-> "",
        draws |-> 4 * DOT_COUNT]

\* startGame that is content with one player
startGame_solo(r, playerId, i) ==
    IF playerId # r.host THEN Rejected(r, "Only host can start the game")
    ELSE IF Len(r.players) < 1 THEN Rejected(r, "Need at least 2 players to start")
    ELSE IF r.isPlaying THEN Rejected(r, "Game already started")
    ELSE beginGame(r, i)

startGame(r, playerId, i) ==
    IF playerId # r.host THEN Rejected(r, "Only host can start the game")
    ELSE IF Len(r.players) < 2 THEN Rejected(r, "Need at least 2 players to start")
    ELSE IF r.isPlaying THEN Rejected(r, "Game already started")
    ELSE beginGame(r, i)

handlePlayerInput(r, playerId, direction) ==
    IF ~r.isPlaying THEN r
    ELSE IF playerId \notin SeqToSet(r.gsPlayers) THEN r
    ELSE IF ~r.pd[playerId].isAlive THEN r
    ELSE [r EXCEPT !.pd[playerId].spinner.targetDirection = direction]

(***************************************************************************)
(* The tick of a room.  The operators below take and return a context     *)
(* [room, rng, out]: the room, the random index and the emitted events.    *)
(***************************************************************************)
\* a * n / d without an intermediate a * n (|n| <= d)
MulDiv(a, n, d) ==
    LET q == Div(a, d)
    IN q * n + Div((a - q * d) * n, d)

\* the length (units) covered in dt milliseconds at v pixels per second
Movement(v, dt) == MulDiv(v, 4 * dt, 125)

\* dist < r1 + r2 on squared distances; the guard keeps the squares small
circleCollision(pos1, radius1, pos2, radius2) ==
    LET dx == pos1.x - pos2.x
        dy == pos1.y - pos2.y
        totalRadius == radius1 + radius2
    IN /\ Abs(dx) < totalRadius
       /\ Abs(dy) < totalRadius
       /\ dx * dx + dy * dy < totalRadius * totalRadius

\* ACCELERATION * deltaTime = 800 * dt / 1000; MOVEMENT_DAMPING = 19 / 20
updatePlayerSpinner(spinner, dt) ==
    LET k == (4 * dt) \div 5
        accel(v, t) == v + (t * spinner.maxSpeed - v) * k
        damp(v) == v - Div(v, 20)
        vx == damp(accel(spinner.velocity.x, spinner.targetDirection.x))
        vy == damp(accel(spinner.velocity.y, spinner.targetDirection.y))
    IN [spinner EXCEPT !.velocity = createVector2(vx, vy),
                       !.position = add(@, createVector2(Movement(vx, dt), Movement(vy, dt))),
                       !.rotation = @ + dt]

\* SPINNER_INITIAL_SPEED * (SPINNER_INITIAL_SIZE / size)
MaxSpeedFor(size) == (SPINNER_INITIAL_SPEED * SPINNER_INITIAL_SIZE) \div size

\* spawnNewDot that pushes no dot
spawnNewDot_none(ctx) ==
    [ctx EXCEPT !.rng = (@ + 4) % Len(RandomTable)]

spawnNewDot(ctx) ==
    [ctx EXCEPT !.room.dots = Append(@, NewDot(ctx.rng)),
                !.rng = (@ + 4) % Len(RandomTable)]

\* the body of the loop for index i (1-based), then the lower indices
RECURSIVE checkDotCollisionsFrom(_, _, _)
checkDotCollisionsFrom(ctx, id, i) ==
    IF i = 0 THEN ctx
    ELSE
      LET spinner == ctx.room.pd[id].spinner
          dot == ctx.room.dots[i]
      IN IF circleCollision(spinner.position, spinner.size, dot.position, dot.size)
         THEN LET size == spinner.size + dot.value
                  c1 == [ctx EXCEPT !.room.dots = RemoveAt(@, i),
                                    !.room.pd[id].spinner.size = size,
                                    !.room.pd[id].score = size,
                                    !.room.pd[id].spinner.maxSpeed = MaxSpeedFor(size)]
              IN checkDotCollisionsFrom(spawnNewDot(c1), id, i - 1)
         ELSE checkDotCollisionsFrom(ctx, id, i - 1)

checkDotCollisions(ctx, id) == checkDotCollisionsFrom(ctx, id, Len(ctx.room.dots))

\* radius = size / 2; the four tests run in the order left, right, top, bottom
checkBoundaryCollisions(spinner) ==
    LET radius == (spinner.size + 1) \div 2
        bounce(v) == (Abs(v) * 4) \div 5
        s1 == IF 2 * spinner.position.x - spinner.size < 0
              THEN [spinner EXCEPT !.position.x = radius,
                                   !.velocity.x = bounce(@)]
              ELSE spinner
        s2 == IF 2 * s1.position.x + s1.size > 2 * ARENA_WIDTH
              THEN [s1 EXCEPT !.position.x = ARENA_WIDTH - radius,
                              !.velocity.x = -bounce(@)]
              ELSE s1
        s3 == IF 2 * s2.position.y - s2.size < 0
              THEN [s2 EXCEPT !.position.y = radius,
                              !.velocity.y = bounce(@)]
              ELSE s2
        s4 == IF 2 * s3.position.y + s3.size > 2 * ARENA_HEIGHT
              THEN [s3 EXCEPT !.position.y = ARENA_HEIGHT - radius,
                              !.velocity.y = -bounce(@)]
              ELSE s3
    IN s4

\* the positions move apart by half the overlap each; the velocities get the
\* impulse of restitution 0.8 with the sizes as masses, unless separating
bouncePlayersApart(ctx, id1, id2) ==
    LET s1 == ctx.room.pd[id1].spinner
        s2 == ctx.room.pd[id2].spinner
        dx == s2.position.x - s1.position.x
        dy == s2.position.y - s1.position.y
        distance == Sqrt(dx * dx + dy * dy)
    IN IF distance = 0 THEN ctx
       ELSE
         LET overlap2 == (s1.size + s2.size) - 2 * distance     \* twice the overlap
             separationX == IF overlap2 > 0 THEN Div(dx * overlap2, 4 * distance) ELSE 0
             separationY == IF overlap2 > 0 THEN Div(dy * overlap2, 4 * distance) ELSE 0
             c1 == [ctx EXCEPT
                      !.room.pd[id1].spinner.position =
                          createVector2(@.x - separationX, @.y - separationY),
                      !.room.pd[id2].spinner.position =
                          createVector2(@.x + separationX, @.y + separationY)]
             relativeVelocityX == s1.velocity.x - s2.velocity.x
             relativeVelocityY == s1.velocity.y - s2.velocity.y
             velocityAlongNormal == MulDiv(relativeVelocityX, dx, distance)
                                    + MulDiv(relativeVelocityY, dy, distance)
             \* impulse / mass1 and impulse / mass2, with 1 + restitution = 9 / 5
             j1 == -Div(MulDiv(velocityAlongNormal, s2.size, s1.size + s2.size) * 9, 5)
             j2 == -Div(MulDiv(velocityAlongNormal, s1.size, s1.size + s2.size) * 9, 5)
         IN IF velocityAlongNormal > 0 THEN c1
            ELSE [c1 EXCEPT
                    !.room.pd[id1].spinner.velocity =
                        createVector2(@.x + MulDiv(j1, dx, distance),
                                      @.y + MulDiv(j1, dy, distance)),
                    !.room.pd[id2].spinner.velocity =
                        createVector2(@.x - MulDiv(j2, dx, distance),
                                      @.y - MulDiv(j2, dy, distance))]

\* handlePlayerCollision whose victor gains the whole size of the victim
handlePlayerCollision_whole(ctx, id1, id2) ==
    LET size1 == ctx.room.pd[id1].spinner.size
        size2 == ctx.room.pd[id2].spinner.size
    IN IF 10 * Max(size1, size2) >= 13 * Min(size1, size2)
       THEN LET victor == IF size1 > size2 THEN id1 ELSE id2
                victim == IF size1 > size2 THEN id2 ELSE id1
                size == ctx.room.pd[victor].spinner.size + ctx.room.pd[victim].spinner.size
            IN [ctx EXCEPT !.room.pd[victim].isAlive = FALSE,
                           !.room.pd[victor].spinner.size = size,
                           !.room.pd[victor].score = size,
                           !.room.pd[victor].spinner.maxSpeed = MaxSpeedFor(size),
                           !.out = Append(@, Event("PLAYER_ELIMINATED", "room",
                                                   ctx.room.code, 0, "", victim))]
       ELSE bouncePlayersApart(ctx, id1, id2)

\* sizeRatio >= 1.3 on integers: 10 * max >= 13 * min
handlePlayerCollision(ctx, id1, id2) ==
    LET size1 == ctx.room.pd[id1].spinner.size
        size2 == ctx.room.pd[id2].spinner.size
    IN IF 10 * Max(size1, size2) >= 13 * Min(size1, size2)
       THEN LET victor == IF size1 > size2 THEN id1 ELSE id2
                victim == IF size1 > size2 THEN id2 ELSE id1
                growthAmount == ctx.room.pd[victim].spinner.size \div 2
                size == ctx.room.pd[victor].spinner.size + growthAmount
            IN [ctx EXCEPT !.room.pd[victim].isAlive = FALSE,
                           !.room.pd[victor].spinner.size = size,
                           !.room.pd[victor].score = size,
                           !.room.pd[victor].spinner.maxSpeed = MaxSpeedFor(size),
                           !.out = Append(@, Event("PLAYER_ELIMINATED", "room",
                                                   ctx.room.code, 0, "", victim))]
       ELSE bouncePlayersApart(ctx, id1, id2)

\* the pairs (i, j), i < j, of the players alive when the pass began
RECURSIVE checkPlayerPairs(_, _, _, _)
checkPlayerPairs(ctx, alivePlayers, i, j) ==
    IF i > Len(alivePlayers) THEN ctx
    ELSE IF j > Len(alivePlayers) THEN checkPlayerPairs(ctx, alivePlayers, i + 1, i + 2)
    ELSE
      LET player1 == ctx.room.pd[alivePlayers[i]]
          player2 == ctx.room.pd[alivePlayers[j]]
          hit == /\ player1.isAlive /\ player2.isAlive
                 \* radii size / 2: the test on doubled lengths
                 /\ circleCollision(
                        createVector2(2 * player1.spinner.position.x,
                                      2 * player1.spinner.position.y),
                        player1.spinner.size,
                        createVector2(2 * player2.spinner.position.x,
                                      2 * player2.spinner.position.y),
                        player2.spinner.size)
      IN checkPlayerPairs(
             IF hit THEN handlePlayerCollision(ctx, alivePlayers[i], alivePlayers[j])
             ELSE ctx,
             alivePlayers, i, j + 1)

AliveOf(r) == SelectSeq(r.gsPlayers, LAMBDA id : r.pd[id].isAlive)

checkPlayerCollisions(ctx) ==
    LET alivePlayers == AliveOf(ctx.room)
    IN IF Len(alivePlayers) < 2 THEN ctx
       ELSE checkPlayerPairs(ctx, alivePlayers, 1, 2)

\* checkGameOver that leaves the tick loop running
checkGameOver_running(ctx) ==
    LET alivePlayers == AliveOf(ctx.room)
    IN IF Len(alivePlayers) <= 1
       THEN [ctx EXCEPT
               !.room = [@ EXCEPT !.phase = "game_over", !.isPlaying = FALSE],
               !.out = Append(@, Event("GAME_OVER", "room", ctx.room.code, 0, "",
                                       IF Len(alivePlayers) = 1 THEN alivePlayers[1] ELSE 0))]
       ELSE ctx

checkGameOver(ctx) ==
    LET alivePlayers == AliveOf(ctx.room)
    IN IF Len(alivePlayers) <= 1
       THEN [ctx EXCEPT
               !.room = stopGameLoop([@ EXCEPT !.phase = "game_over", !.isPlaying = FALSE]),
               !.out = Append(@, Event("GAME_OVER", "room", ctx.room.code, 0, "",
                                       IF Len(alivePlayers) = 1 THEN alivePlayers[1] ELSE 0))]
       ELSE ctx

\* the loop over gameState.players: integrate, collect, clamp, for each alive player
RECURSIVE updatePlayersFrom(_, _, _, _)
updatePlayersFrom(ctx, ids, k, dt) ==
    IF k > Len(ids) THEN ctx
    ELSE IF ~ctx.room.pd[ids[k]].isAlive THEN updatePlayersFrom(ctx, ids, k + 1, dt)
    ELSE
      LET id == ids[k]
          c1 == [ctx EXCEPT !.room.pd[id].spinner = updatePlayerSpinner(@, dt)]
          c2 == checkDotCollisions(c1, id)
          c3 == [c2 EXCEPT !.room.pd[id].spinner = checkBoundaryCollisions(@)]
      IN updatePlayersFrom(c3, ids, k + 1, dt)

\* updateGame in which an input of the last player lands after the first player's integration
updateGame_torn(ctx, dt) ==
    LET c0 == [ctx EXCEPT !.room.timeElapsed = @ + dt, !.room.ticks = @ + 1]
        ids == c0.room.gsPlayers
        c1 == updatePlayersFrom(c0, SubSeq(ids, 1, 1), 1, dt)
        c2 == IF Len(ids) = 0 THEN c1
              ELSE [c1 EXCEPT !.room = handlePlayerInput(@, ids[Len(ids)], createVector2(1, 0))]
        c3 == updatePlayersFrom(c2, SubSeq(ids, 2, Len(ids)), 1, dt)
    IN checkGameOver(checkPlayerCollisions(c3))

updateGame(ctx, dt) ==
    LET c0 == [ctx EXCEPT !.room.timeElapsed = @ + dt, !.room.ticks = @ + 1]
        c1 == updatePlayersFrom(c0, c0.room.gsPlayers, 1, dt)
    IN checkGameOver(checkPlayerCollisions(c1))

broadcastRoomState(ctx) ==
    [ctx EXCEPT !.out = Append(@, Event("ROOM_STATE", "room", ctx.room.code, 0, "", 0))]

\* the payload of GAME_STATE: the players in Map order, the dots, the elapsed time
Snapshot(r) ==
    [players |-> [i \in 1..Len(r.gsPlayers) |-> r.pd[r.gsPlayers[i]]],
     dots |-> r.dots, timeElapsed |-> r.timeElapsed]

broadcastGameState(ctx) ==
    IF ~ctx.room.isPlaying THEN ctx
    ELSE [ctx EXCEPT !.out = Append(@, [Event("GAME_STATE", "room", ctx.room.code, 0, "", 0)
                                          EXCEPT !.state = Snapshot(ctx.room)])]

(***************************************************************************)
(* server.ts: the handlers of a connection, and the interval callback      *)
(***************************************************************************)
Advance(i, draws) == (i + draws) % Len(RandomTable)

\* the room code of a new GameRoom: the first one not used so far
FreshCode ==
    CHOOSE c \in DOMAIN gameRooms : gameRooms[c] = NoRoom /\ \A d \in 1..(c - 1) : gameRooms[d] # NoRoom

\* Socket ids are opaque: connections that have not entered a room yet are
\* interchangeable, and the one with the least id stands for all of them.
Idle(s) == sockets[s] = "open" /\ playerRooms[s] = 0
Turn(s) == sockets[s] = "open" /\ \A t \in 1..(s - 1) : ~Idle(t)

CREATE_ROOM(s) ==
    /\ Turn(s)
    /\ \E c \in DOMAIN gameRooms : gameRooms[c] = NoRoom
    /\ LET gameRoom == NewGameRoom(FreshCode)
           result == addPlayer(gameRoom, s, rng)
       IN /\ gameRooms' = [gameRooms EXCEPT ![gameRoom.code] = result.room]
          /\ rng' = Advance(rng, result.draws)
          /\ IF result.success
             THEN /\ rooms' = rooms \cup {gameRoom.code}
                  /\ playerRooms' = [playerRooms EXCEPT ![s] = gameRoom.code]
                  /\ out' = <<Event("ROOM_CREATED", "socket", gameRoom.code, s, "", s),
                              Event("ROOM_STATE", "room", gameRoom.code, 0, "", 0)>>
             ELSE /\ UNCHANGED <<rooms, playerRooms>>
                  /\ out' = <<Event("ERROR", "socket", 0, s, result.error, 0)>>
    /\ UNCHANGED <<sockets, joins, clientVars, lagVars, gridVars>>

JOIN_ROOM(s, roomCode) ==
    /\ Turn(s)
    /\ joins < MaxJoins
    /\ joins' = joins + 1
    /\ IF roomCode \notin rooms
       THEN /\ out' = <<Event("ERROR", "socket", 0, s, "Room not found", 0)>>
            /\ UNCHANGED <<gameRooms, rooms, playerRooms, rng>>
       ELSE LET result == addPlayer(gameRooms[roomCode], s, rng)
            IN /\ gameRooms' = [gameRooms EXCEPT ![roomCode] = result.room]
               /\ rng' = Advance(rng, result.draws)
               /\ UNCHANGED rooms
               /\ IF result.success
                  THEN /\ playerRooms' = [playerRooms EXCEPT ![s] = roomCode]
                       /\ out' = <<Event("ROOM_JOINED", "socket", roomCode, s, "", s),
                                   Event("PLAYER_JOINED", "others", roomCode, s, "", s),
                                   Event("ROOM_STATE", "room", roomCode, 0, "", 0)>>
                  ELSE /\ UNCHANGED playerRooms
                       /\ out' = <<Event("ERROR", "socket", 0, s, result.error, 0)>>
    /\ UNCHANGED <<sockets, clientVars, lagVars, gridVars>>

START_GAME(s) ==
    /\ Turn(s)
    /\ LET roomCode == playerRooms[s]
       IN IF roomCode = 0
          THEN /\ out' = <<Event("ERROR", "socket", 0, s, "Not in a room", 0)>>
               /\ UNCHANGED <<gameRooms, rng>>
          ELSE IF roomCode \notin rooms
          THEN /\ out' = <<Event("ERROR", "socket", 0, s, "Room not found", 0)>>
               /\ UNCHANGED <<gameRooms, rng>>
          ELSE LET result == startGame(gameRooms[roomCode], s, rng)
               IN /\ gameRooms' = [gameRooms EXCEPT ![roomCode] = result.room]
                  /\ rng' = Advance(rng, result.draws)
                  /\ out' = IF result.success
                            THEN broadcastGameState(
                                   [room |-> result.room, rng |-> rng',
                                    out |-> <<Event("GAME_STARTED", "room", roomCode, 0, "", 0)>>]).out
                            ELSE <<Event("ERROR", "socket", 0, s, result.error, 0)>>
    /\ UNCHANGED <<rooms, playerRooms, sockets, joins, clientVars, lagVars, gridVars>>

disconnect(s) ==
    /\ Turn(s)
    /\ sockets' = [sockets EXCEPT ![s] = "closed"]
    /\ LET roomCode == playerRooms[s]
       IN IF roomCode = 0
          THEN /\ out' = <<>>
               /\ UNCHANGED <<gameRooms, rooms, playerRooms>>
          ELSE /\ playerRooms' = [playerRooms EXCEPT ![s] = 0]
               /\ IF roomCode \notin rooms
                  THEN /\ out' = <<>>
                       /\ UNCHANGED <<gameRooms, rooms>>
                  ELSE LET gameRoom == removePlayer(gameRooms[roomCode], s).room
                           left == Event("PLAYER_LEFT", "others", roomCode, s, "", s)
                       IN /\ gameRooms' = [gameRooms EXCEPT ![roomCode] = gameRoom]
                          /\ IF Len(gameRoom.players) = 0
                             THEN /\ rooms' = rooms \ {roomCode}
                                  /\ out' = <<left>>
                             ELSE /\ UNCHANGED rooms
                                  /\ out' = <<left, Event("ROOM_STATE", "room", roomCode, 0, "", 0)>>
    /\ UNCHANGED <<rng, joins, clientVars, lagVars, gridVars>>

\* the interval callback with the broadcast ahead of the simulation
GameLoop_early(code, dt) ==
    /\ gameRooms[code] # NoRoom
    /\ gameRooms[code].timers > 0
    /\ gameRooms[code].ticks < MaxTicks
    /\ LET ctx == updateGame(
                      broadcastGameState([room |-> gameRooms[code], rng |-> rng, out |-> <<>>]), dt)
       IN /\ gameRooms' = [gameRooms EXCEPT ![code] = ctx.room]
          /\ rng' = ctx.rng
          /\ out' = ctx.out
    /\ UNCHANGED <<rooms, playerRooms, sockets, joins, clientVars, lagVars, gridVars>>

\* the callback of setInterval: updateGame(), then broadcastGameState()
GameLoop(code, dt) ==
    /\ gameRooms[code] # NoRoom
    /\ gameRooms[code].timers > 0
    /\ gameRooms[code].ticks < MaxTicks
    /\ LET ctx == broadcastGameState(
                      updateGame([room |-> gameRooms[code], rng |-> rng, out |-> <<>>], dt))
       IN /\ gameRooms' = [gameRooms EXCEPT ![code] = ctx.room]
          /\ rng' = ctx.rng
          /\ out' = ctx.out
    /\ UNCHANGED <<rooms, playerRooms, sockets, joins, clientVars, lagVars, gridVars>>

InitRooms ==
    /\ gameRooms = [c \in Codes |-> NoRoom]
    /\ rooms = {}
    /\ playerRooms = [s \in Sockets |-> 0]
    /\ sockets = [s \in Sockets |-> "open"]
    /\ rng \in Seeds
    /\ out = <<>>
    /\ joins = 0
    /\ NoClient /\ NoLag /\ NoGrid

NextRooms ==
    \/ \E s \in Sockets : CREATE_ROOM(s)
    \/ \E s \in Sockets : \E c \in Codes : JOIN_ROOM(s, c)
    \/ \E s \in Sockets : START_GAME(s)
    \/ \E s \in Sockets : disconnect(s)
    \/ \E c \in Codes : \E dt \in DeltaMs : GameLoop(c, dt)

SpecRooms == InitRooms /\ [][NextRooms]_vars

(***************************************************************************)
(* The registry with two rooms: the connections create, join and leave;    *)
(* no game is started.                                                     *)
(***************************************************************************)
MaxRegistryRooms == 2
RegistryCodes == 1..MaxRegistryRooms

InitRegistry ==
    /\ gameRooms = [c \in RegistryCodes |-> NoRoom]
    /\ rooms = {}
    /\ playerRooms = [s \in Sockets |-> 0]
    /\ sockets = [s \in Sockets |-> "open"]
    /\ rng \in Seeds
    /\ out = <<>>
    /\ joins = 0
    /\ NoClient /\ NoLag /\ NoGrid

NextRegistry ==
    \/ \E s \in Sockets : CREATE_ROOM(s)
    \/ \E s \in Sockets : \E c \in RegistryCodes : JOIN_ROOM(s, c)
    \/ \E s \in Sockets : disconnect(s)

SpecRegistry == InitRegistry /\ [][NextRegistry]_vars

(***************************************************************************)
(* One game in one room: the inputs of the players and the ticks           *)
(***************************************************************************)
\* PLAYER_INPUT{direction}: the room of the sender applies the direction
PLAYER_INPUT(s, direction) ==
    /\ sockets[s] = "open"
    /\ playerRooms[s] \in rooms
    /\ gameRooms[playerRooms[s]].ticks < MaxTicks
    /\ gameRooms' = [gameRooms EXCEPT
                       ![playerRooms[s]] = handlePlayerInput(@, s, direction)]
    /\ out' = <<>>
    /\ UNCHANGED <<rooms, playerRooms, sockets, rng, joins, clientVars, lagVars, gridVars>>

\* the room after sockets 1 .. n entered a new room, in this order
RECURSIVE Entered(_, _)
Entered(n, i) ==
    IF n = 0 THEN [room |-> NewGameRoom(1), rng |-> i]
    ELSE LET before == Entered(n - 1, i)
             result == addPlayer(before.room, n, before.rng)
         IN [room |-> result.room, rng |-> Advance(before.rng, result.draws)]

\* the state after CREATE_ROOM by socket 1, JOIN_ROOM by the sockets 2 .. GamePlayers
\* and START_GAME by socket 1
InitGame ==
    \E seed \in Seeds :
        LET lobby == Entered(GamePlayers, seed)
            result == startGame(lobby.room, 1, lobby.rng)
        IN /\ gameRooms = [c \in Codes |-> IF c = 1 THEN result.room ELSE NoRoom]
           /\ rooms = {1}
           /\ playerRooms = [s \in Sockets |-> IF s <= GamePlayers THEN 1 ELSE 0]
           /\ sockets = [s \in Sockets |-> "open"]
           /\ rng = Advance(lobby.rng, result.draws)
           /\ out = <<Event("GAME_STARTED", "room", 1, 0, "", 0),
                      [Event("GAME_STATE", "room", 1, 0, "", 0)
                         EXCEPT !.state = Snapshot(result.room)]>>
           /\ joins = GamePlayers - 1
           /\ NoClient /\ NoLag /\ NoGrid

NextGame ==
    \/ \E s \in Sockets : \E d \in Directions : PLAYER_INPUT(s, d)
    \/ \E c \in Codes : \E dt \in DeltaMs : GameLoop(c, dt)

SpecGame == InitGame /\ [][NextGame]_vars

(***************************************************************************)
(* The client.  GAME_CONFIG of the client (types/index.ts): the arena and  *)
(* the dot settings have the values of the server's; the spinner differs.  *)
(* Client velocities are in units per second (1/32 pixel per second).      *)
(***************************************************************************)
CLIENT_SPINNER_INITIAL_SIZE == 15 * U
SPINNER_MAX_SIZE == 100 * U
CLIENT_SPINNER_INITIAL_SPEED == 200 * U
SPINNER_INITIAL_SPIN_SPEED == 1000           \* 2 * pi per second: one turn per second
TURN == 1000                                 \* Math.PI * 2
ACCELERATION == 800 * U
MaxUpdates == 4
MaxStarts == 2
MaxInputs == 2
MaxServerUpdates == 2
MaxResets == 2
ClientDeltaMs == {100}                       \* deltaTime of update(), milliseconds
ClientDirections == {createVector2(0, 1), createVector2(-1, 0)}

\* Math.random() of the client process
ClientRandomTable == <<8, 10, 4, 12, 1, 14>>
ClientRandomAt(i) == ClientRandomTable[(i % Len(ClientRandomTable)) + 1]
clientRandomFloat(i, min, max) == min + ((max - min) * ClientRandomAt(i)) \div 16
ClientAdvance(i, draws) == (i + draws) % Len(ClientRandomTable)

\* scale(vector, n / d)
scale(vector, n, d) == createVector2(Div(vector.x * n, d), Div(vector.y * n, d))
\* scale(normalize(vector), scalar); normalize of the zero vector is the zero vector
scaleNormalized(vector, scalar) ==
    LET mag == Sqrt(vector.x * vector.x + vector.y * vector.y)
    IN IF mag = 0 THEN createVector2(0, 0)
       ELSE createVector2(Div(vector.x * scalar, mag), Div(vector.y * scalar, mag))
\* distance(a, b) < d
Nearer(a, b, d) == circleCollision(a, d, b, 0)
\* distance(a, b) > d
Farther(a, b, d) ==
    LET dx == a.x - b.x
        dy == a.y - b.y
    IN Abs(dx) > d \/ Abs(dy) > d \/ dx * dx + dy * dy > d * d
\* maxSpeed * Math.max(0.3, 1 - (size - SPINNER_INITIAL_SIZE) / SPINNER_MAX_SIZE)
LimitedSpeed(maxSpeed, size) ==
    Max(Div(3 * maxSpeed, 10),
        Div(maxSpeed * (SPINNER_MAX_SIZE - (size - CLIENT_SPINNER_INITIAL_SIZE)), SPINNER_MAX_SIZE))
\* the velocity after acceleration towards the target, damping and the speed limit
Accelerated(velocity, targetDirection, acceleration, limit, dt) ==
    LET v1 == IF targetDirection.x # 0 \/ targetDirection.y # 0
              THEN add(velocity, scaleNormalized(scale(targetDirection, 1024, 1),
                                                 Div(acceleration * dt, 1000)))
              ELSE velocity
        v2 == scale(v1, 19, 20)
    IN IF v2.x * v2.x + v2.y * v2.y > limit * limit THEN scaleNormalized(v2, limit) ELSE v2
\* rotation += spinSpeed * deltaTime; one turn is taken off when it exceeds a turn
Rotated(rotation, spinSpeed, dt) ==
    LET r == rotation + Div(spinSpeed * dt, 1000)
    IN IF r > TURN THEN r - TURN ELSE r

(***************************************************************************)
(* GameStateManager                                                        *)
(***************************************************************************)
allowedTransitions(phase) ==
    CASE phase = "menu" -> {"playing"}
      [] phase = "playing" -> {"game_over"}
      [] phase = "game_over" -> {"menu", "playing"}

NewGameStateManager(initialPhase) == [currentPhase |-> initialPhase, transitionHistory |-> <<>>]

\* the manager after transitionTo(newPhase), and the value returned
transitionTo(m, newPhase) ==
    IF m.currentPhase = newPhase THEN [manager |-> m, success |-> TRUE]
    ELSE IF newPhase \notin allowedTransitions(m.currentPhase)
         THEN [manager |-> m, success |-> FALSE]
    ELSE LET pushed == Append(m.transitionHistory, [from |-> m.currentPhase, to |-> newPhase])
         IN [manager |-> [currentPhase |-> newPhase,
                          transitionHistory |-> IF Len(pushed) > 10 THEN Tail(pushed) ELSE pushed],
             success |-> TRUE]

forceTransition(m, newPhase) ==
    [currentPhase |-> newPhase,
     transitionHistory |-> Append(m.transitionHistory, [from |-> m.currentPhase, to |-> newPhase])]

(***************************************************************************)
(* GameEngine (the legacy engine).  Its operators take and return a        *)
(* context [gameState, rng].                                                *)
(***************************************************************************)
createInitialState ==
    [phase |-> "menu",
     spinner |-> [position |-> createVector2(ARENA_WIDTH \div 2, ARENA_HEIGHT \div 2),
                  velocity |-> createVector2(0, 0),
                  targetDirection |-> createVector2(0, 0),
                  size |-> CLIENT_SPINNER_INITIAL_SIZE,
                  spinSpeed |-> SPINNER_INITIAL_SPIN_SPEED,
                  rotation |-> 0,
                  maxSpeed |-> CLIENT_SPINNER_INITIAL_SPEED],
     dots |-> <<>>,
     score |-> CLIENT_SPINNER_INITIAL_SIZE,
     timeElapsed |-> 0]

\* the do-while of createRandomDot after `attempts` attempts, then generateId(), size, value
RECURSIVE createRandomDotFrom(_, _, _)
createRandomDotFrom(spinner, i, attempts) ==
    LET position == createVector2(
                        clientRandomFloat(i, DOT_RESPAWN_MARGIN, ARENA_WIDTH - DOT_RESPAWN_MARGIN),
                        clientRandomFloat(i + 1, DOT_RESPAWN_MARGIN, ARENA_HEIGHT - DOT_RESPAWN_MARGIN))
        minDistance == spinner.size + 30 * U
    IN IF attempts + 1 < 50 /\ Nearer(position, spinner.position, minDistance)
       THEN createRandomDotFrom(spinner, i + 2, attempts + 1)
       ELSE [dot |-> [position |-> position,
                      size |-> clientRandomFloat(i + 3, DOT_MIN_SIZE, DOT_MAX_SIZE),
                      value |-> clientRandomFloat(i + 4, DOT_GROWTH_MIN, DOT_GROWTH_MAX)],
             rng |-> ClientAdvance(i, 5)]

createRandomDot(ctx) ==
    LET made == createRandomDotFrom(ctx.gameState.spinner, ctx.rng, 0)
    IN [gameState |-> [ctx.gameState EXCEPT !.dots = Append(@, made.dot)], rng |-> made.rng]

\* while (dots.length < DOT_COUNT) dots.push(createRandomDot())
RECURSIVE updateDots(_)
updateDots(ctx) ==
    IF Len(ctx.gameState.dots) < DOT_COUNT THEN updateDots(createRandomDot(ctx)) ELSE ctx

updateSpinner(spinner, dt) ==
    LET velocity == Accelerated(spinner.velocity, spinner.targetDirection, ACCELERATION,
                                LimitedSpeed(spinner.maxSpeed, spinner.size), dt)
    IN [spinner EXCEPT !.rotation = Rotated(@, spinner.spinSpeed, dt),
                       !.velocity = velocity,
                       !.position = add(@, scale(velocity, dt, 1000))]

consumeDot(gameState, dotIndex) ==
    LET size == Min(SPINNER_MAX_SIZE, gameState.spinner.size + gameState.dots[dotIndex].value)
    IN [gameState EXCEPT !.spinner.size = size,
                         !.spinner.spinSpeed = Div(@ * 21, 20),
                         !.score = size,
                         !.dots = RemoveAt(@, dotIndex)]

\* the loop over the dots from index i (1-based) down to the first
RECURSIVE consumeDotsFrom(_, _)
consumeDotsFrom(gameState, i) ==
    IF i = 0 \/ i > Len(gameState.dots) THEN gameState
    ELSE LET dot == gameState.dots[i]
             hit == circleCollision(gameState.spinner.position, gameState.spinner.size,
                                    dot.position, dot.size)
         IN consumeDotsFrom(IF hit THEN consumeDot(gameState, i) ELSE gameState, i - 1)

checkCollisions(gameState) ==
    LET spinner == gameState.spinner
        margin == spinner.size
    IN IF \/ spinner.position.x - margin <= 0
          \/ spinner.position.x + margin >= ARENA_WIDTH
          \/ spinner.position.y - margin <= 0
          \/ spinner.position.y + margin >= ARENA_HEIGHT
       THEN [gameState EXCEPT !.phase = "game_over"]
       ELSE consumeDotsFrom(gameState, Len(gameState.dots))

GameEngine_startGame(i) ==
    updateDots([gameState |-> [createInitialState EXCEPT !.phase = "playing"], rng |-> i])

GameEngine_update(ctx, dt) ==
    IF ctx.gameState.phase # "playing" THEN ctx
    ELSE LET moved == [ctx.gameState EXCEPT !.spinner = updateSpinner(@, dt)]
             filled == updateDots([gameState |-> checkCollisions(moved), rng |-> ctx.rng])
         IN [filled EXCEPT !.gameState.timeElapsed = @ + dt]

GameEngine_setSpinnerDirection(gameState, direction) ==
    IF gameState.phase = "playing"
    THEN [gameState EXCEPT !.spinner.targetDirection = direction]
    ELSE gameState

GameEngine_stopSpinner(gameState) ==
    [gameState EXCEPT !.spinner.targetDirection = createVector2(0, 0)]

GameEngine_resetToMenu(gameState) == [gameState EXCEPT !.phase = "menu"]

(***************************************************************************)
(* The ECS World and the entities of EntityFactory.  An entity is the      *)
(* record of its components; a world context is a record with the fields   *)
(* components (entity id -> entity) and nextEntityId, among others.        *)
(***************************************************************************)
\* the ids of the Map `components` in insertion order, which is the order of the ids
RECURSIVE Ascending(_)
Ascending(ids) ==
    IF ids = {} THEN <<>>
    ELSE LET least == CHOOSE a \in ids : \A b \in ids : a <= b
         IN <<least>> \o Ascending(ids \ {least})

getEntitiesWithComponents(components, componentType) ==
    SelectSeq(Ascending(DOMAIN components), LAMBDA id : components[id].kind = componentType)

IsSpinner(entity) == entity.kind = "spinner"
IsCollectible(entity) == entity.kind = "collectible"

\* createEntity and the addComponent calls of createPlayerSpinner
createPlayerSpinner(w, playerId, position, isCurrentPlayer, isHost) ==
    LET entityId == w.nextEntityId
        entity == [kind |-> "spinner",
                   position |-> position, previousPosition |-> position,
                   velocity |-> createVector2(0, 0),
                   targetDirection |-> createVector2(0, 0),
                   maxSpeed |-> CLIENT_SPINNER_INITIAL_SPEED,
                   acceleration |-> ACCELERATION,
                   mass |-> CLIENT_SPINNER_INITIAL_SIZE,
                   restitution |-> 8,                       \* tenths
                   size |-> CLIENT_SPINNER_INITIAL_SIZE,
                   spinSpeed |-> SPINNER_INITIAL_SPIN_SPEED,
                   rotation |-> 0,
                   radius |-> CLIENT_SPINNER_INITIAL_SIZE \div 2,
                   layer |-> 0, mask |-> {0, 1},
                   isAlive |-> TRUE,
                   score |-> CLIENT_SPINNER_INITIAL_SIZE,
                   isHost |-> isHost, isCurrentPlayer |-> isCurrentPlayer,
                   playerId |-> playerId,
                   sequenceNumber |-> 0, lastAcknowledged |-> 0,
                   clientPredicted |-> FALSE]
    IN [w EXCEPT !.components = Put(@, entityId, entity), !.nextEntityId = @ + 1]

\* createEntity, the two randomFloat draws at i and the addComponent calls
createCollectibleDot(w, position, i) ==
    LET entityId == w.nextEntityId
        size == clientRandomFloat(i, DOT_MIN_SIZE, DOT_MAX_SIZE)
        value == clientRandomFloat(i + 1, DOT_GROWTH_MIN, DOT_GROWTH_MAX)
        entity == [kind |-> "collectible",
                   position |-> position, previousPosition |-> position,
                   value |-> value, size |-> size, collected |-> FALSE,
                   radius |-> size \div 2,
                   layer |-> 1, mask |-> {0}]
    IN [w EXCEPT !.components = Put(@, entityId, entity), !.nextEntityId = @ + 1]

(***************************************************************************)
(* PhysicsSystem                                                           *)
(***************************************************************************)
updateEntityPhysics(entity, dt) ==
    LET velocity == Accelerated(entity.velocity, entity.targetDirection, entity.acceleration,
                                LimitedSpeed(entity.maxSpeed, entity.size), dt)
    IN [entity EXCEPT !.previousPosition = entity.position,
                      !.velocity = velocity,
                      !.position = add(@, scale(velocity, dt, 1000)),
                      !.rotation = Rotated(@, entity.spinSpeed, dt)]

\* every entity with a Position and a Velocity: the spinners
PhysicsSystem_update(w, dt) ==
    [w EXCEPT !.components =
        [id \in DOMAIN @ |-> IF IsSpinner(@[id]) THEN updateEntityPhysics(@[id], dt) ELSE @[id]]]

setTargetDirection(w, entityId, direction) ==
    IF entityId \in DOMAIN w.components /\ IsSpinner(w.components[entityId])
    THEN [w EXCEPT !.components[entityId].targetDirection = direction]
    ELSE w

stopEntity(w, entityId) == setTargetDirection(w, entityId, createVector2(0, 0))

(***************************************************************************)
(* CollisionSystem.  The spatial grid is a broad phase that returns every  *)
(* entity whose bounding box meets the probe's; the events are those of    *)
(* the narrow phase, taken here in the order of the entity ids.            *)
(***************************************************************************)
CollisionEvent(components, a, b) ==
    LET dx == components[b].position.x - components[a].position.x
        dy == components[b].position.y - components[a].position.y
    IN [entityA |-> a, entityB |-> b, dx |-> dx, dy |-> dy,
        distance |-> Sqrt(dx * dx + dy * dy)]

\* the events pushed by checkEntityCollisions(entityId)
checkEntityCollisions(components, ids, entityId) ==
    LET hits == SelectSeq(ids, LAMBDA other :
                    /\ other # entityId
                    /\ components[other].layer \in components[entityId].mask
                    /\ circleCollision(components[entityId].position, components[entityId].radius,
                                       components[other].position, components[other].radius))
    IN [k \in 1..Len(hits) |-> CollisionEvent(components, entityId, hits[k])]

RECURSIVE collectCollisionEvents(_, _, _)
collectCollisionEvents(components, ids, k) ==
    IF k > Len(ids) THEN <<>>
    ELSE checkEntityCollisions(components, ids, ids[k])
             \o collectCollisionEvents(components, ids, k + 1)

handleSpinnerCollectibleCollision(w, spinnerId, collectibleId) ==
    LET collectible == w.components[collectibleId]
        size == Min(SPINNER_MAX_SIZE, w.components[spinnerId].size + collectible.value)
    IN IF collectible.collected THEN w
       ELSE [w EXCEPT !.components[collectibleId].collected = TRUE,
                      !.components[spinnerId].size = size,
                      !.components[spinnerId].spinSpeed = Div(@ * 21, 20),
                      !.components[spinnerId].score = size]

\* SPINNER_INITIAL_SPEED * (SPINNER_INITIAL_SIZE / size)
ClientMaxSpeedFor(size) == Div(CLIENT_SPINNER_INITIAL_SPEED * CLIENT_SPINNER_INITIAL_SIZE, size)

eliminateSpinner(w, victimId, victorId) ==
    LET growthAmount == w.components[victimId].size \div 2
        size == w.components[victorId].size + growthAmount
    IN [w EXCEPT !.components[victimId].isAlive = FALSE,
                 !.components[victorId].size = size,
                 !.components[victorId].maxSpeed = ClientMaxSpeedFor(size)]

\* the separation of the two entities, then the impulse along the normal
bounceSpinners(w, entityA, entityB, event) ==
    LET A == w.components[entityA]
        B == w.components[entityB]
        dist == event.distance
        normal(len) == IF dist > 0
                       THEN createVector2(Div(event.dx * len, dist), Div(event.dy * len, dist))
                       ELSE createVector2(len, 0)
        overlap == A.radius + B.radius - dist
        separation == IF overlap > 0 THEN normal(overlap \div 2) ELSE createVector2(0, 0)
        relative == createVector2(A.velocity.x - B.velocity.x, A.velocity.y - B.velocity.y)
        velocityAlongNormal == IF dist > 0
                               THEN Div(relative.x * event.dx + relative.y * event.dy, dist)
                               ELSE relative.x
        restitution == Min(A.restitution, B.restitution)
        \* impulse / mass1 and impulse / mass2
        j1 == Div(-(10 + restitution) * velocityAlongNormal * (B.mass \div U),
                  10 * ((A.mass + B.mass) \div U))
        j2 == Div(-(10 + restitution) * velocityAlongNormal * (A.mass \div U),
                  10 * ((A.mass + B.mass) \div U))
        separated == [w EXCEPT
                        !.components[entityA].position =
                            createVector2(@.x - separation.x, @.y - separation.y),
                        !.components[entityB].position = add(@, separation)]
    IN IF velocityAlongNormal > 0 THEN separated
       ELSE [separated EXCEPT
               !.components[entityA].velocity = add(@, normal(j1)),
               !.components[entityB].velocity =
                   createVector2(@.x - normal(j2).x, @.y - normal(j2).y)]

\* sizeRatio >= 1.3 on integers: 10 * max >= 13 * min
handleSpinnerSpinnerCollision(w, entityA, entityB, event) ==
    LET A == w.components[entityA]
        B == w.components[entityB]
    IN IF ~A.isAlive \/ ~B.isAlive THEN w
       ELSE IF 10 * Max(A.size, B.size) >= 13 * Min(A.size, B.size)
       THEN IF A.size > B.size THEN eliminateSpinner(w, entityB, entityA)
            ELSE eliminateSpinner(w, entityA, entityB)
       ELSE bounceSpinners(w, entityA, entityB, event)

handleCollision(w, event) ==
    LET A == w.components[event.entityA]
        B == w.components[event.entityB]
    IN IF IsSpinner(A) /\ IsCollectible(B) /\ ~B.collected
       THEN handleSpinnerCollectibleCollision(w, event.entityA, event.entityB)
       ELSE IF IsSpinner(B) /\ IsCollectible(A) /\ ~A.collected
       THEN handleSpinnerCollectibleCollision(w, event.entityB, event.entityA)
       ELSE IF IsSpinner(A) /\ IsSpinner(B)
       THEN handleSpinnerSpinnerCollision(w, event.entityA, event.entityB, event)
       ELSE w

RECURSIVE processCollisionEvents(_, _, _)
processCollisionEvents(w, collisionEvents, k) ==
    IF k > Len(collisionEvents) THEN w
    \* getComponent() is null for an entity that is not in the world
    ELSE IF {collisionEvents[k].entityA, collisionEvents[k].entityB} \ DOMAIN w.components # {}
    THEN processCollisionEvents(w, collisionEvents, k + 1)
    ELSE processCollisionEvents(handleCollision(w, collisionEvents[k]), collisionEvents, k + 1)

\* the four tests of checkBoundaryCollisions, in their order, on one entity
BoundaryCorrected(entity) ==
    LET radius == entity.radius
        bounce(v) == Div(Abs(v) * entity.restitution, 10)
        e1 == IF entity.position.x - radius < 0
              THEN [entity EXCEPT !.position.x = radius, !.velocity.x = bounce(@)]
              ELSE entity
        e2 == IF e1.position.x + radius > ARENA_WIDTH
              THEN [e1 EXCEPT !.position.x = ARENA_WIDTH - radius, !.velocity.x = -bounce(@)]
              ELSE e1
        e3 == IF e2.position.y - radius < 0
              THEN [e2 EXCEPT !.position.y = radius, !.velocity.y = bounce(@)]
              ELSE e2
    IN IF e3.position.y + radius > ARENA_HEIGHT
       THEN [e3 EXCEPT !.position.y = ARENA_HEIGHT - radius, !.velocity.y = -bounce(@)]
       ELSE e3

CollisionSystem_checkBoundaryCollisions(w) ==
    [w EXCEPT !.components =
        [id \in DOMAIN @ |-> IF IsSpinner(@[id]) THEN BoundaryCorrected(@[id]) ELSE @[id]]]

CollisionSystem_update(w) ==
    LET ids == Ascending(DOMAIN w.components)
        collisionEvents == collectCollisionEvents(w.components, ids, 1)
    IN CollisionSystem_checkBoundaryCollisions(processCollisionEvents(w, collisionEvents, 1))

(***************************************************************************)
(* NetworkSystem: the input frames and the server updates of an entity     *)
(* are kept in two Maps keyed by the entity id.                            *)
(***************************************************************************)
BufferOf(buffers, entityId) == IF entityId \in DOMAIN buffers THEN buffers[entityId] ELSE <<>>
\* findIndex: the first index whose frame has the sequence number, 0 when none has
findIndex(buffer, sequenceNumber, k) ==
    LET found == {i \in k..Len(buffer) : buffer[i].sequenceNumber = sequenceNumber}
    IN IF found = {} THEN 0 ELSE CHOOSE i \in found : \A j \in found : i <= j

recordInput(m, entityId, direction, timestamp) ==
    IF entityId \notin DOMAIN m.components \/ ~IsSpinner(m.components[entityId]) THEN m
    ELSE LET entity == m.components[entityId]
             inputFrame == [sequenceNumber |-> entity.sequenceNumber + 1,
                            timestamp |-> timestamp,
                            direction |-> direction,
                            position |-> entity.position,
                            velocity |-> entity.velocity]
             buffer == Append(BufferOf(m.inputBuffer, entityId), inputFrame)
         IN [m EXCEPT !.components[entityId].sequenceNumber = @ + 1,
                      !.inputBuffer = Put(@, entityId,
                                          IF Len(buffer) > 100 THEN Tail(buffer) ELSE buffer)]

\* one step of reapplyInputs: deltaTime = 0.016, acceleration = 800, damping = 0.95
reapplyInput(entity, input) ==
    LET v1 == IF input.direction.x # 0 \/ input.direction.y # 0
              THEN add(entity.velocity,
                       scaleNormalized(scale(input.direction, 1024, 1), Div(ACCELERATION * 16, 1000)))
              ELSE entity.velocity
        v2 == scale(v1, 19, 20)
    IN [entity EXCEPT !.targetDirection = input.direction,
                      !.velocity = v2,
                      !.position = add(@, scale(v2, 16, 1000))]

\* (the test of the sequence number makes TLC evaluate entity before the next step)
RECURSIVE reapplyInputs(_, _, _)
reapplyInputs(entity, inputs, k) ==
    IF k > Len(inputs) \/ entity.sequenceNumber < 0 THEN entity
    ELSE reapplyInputs(reapplyInput(entity, inputs[k]), inputs, k + 1)

reconcileWithServer(m, entityId) ==
    IF entityId \notin DOMAIN m.components \/ ~IsSpinner(m.components[entityId]) THEN m
    ELSE IF entityId \notin DOMAIN m.inputBuffer \/ Len(BufferOf(m.serverUpdates, entityId)) = 0
    THEN m
    ELSE
      LET inputBuffer == m.inputBuffer[entityId]
          serverUpdates == m.serverUpdates[entityId]
          latestUpdate == serverUpdates[Len(serverUpdates)]
          acknowledgedInputIndex == findIndex(inputBuffer, latestUpdate.sequenceNumber, 1)
          acknowledgedInput == inputBuffer[acknowledgedInputIndex]
          errorThreshold == 5 * U
          unacknowledgedInputs == SubSeq(inputBuffer, acknowledgedInputIndex + 1, Len(inputBuffer))
          corrected == reapplyInputs([m.components[entityId] EXCEPT
                                          !.position = latestUpdate.position,
                                          !.velocity = latestUpdate.velocity],
                                     unacknowledgedInputs, 1)
      IN IF acknowledgedInputIndex = 0 THEN m
         \* errorMagnitude > errorThreshold
         ELSE IF Farther(latestUpdate.position, acknowledgedInput.position, errorThreshold)
         THEN [m EXCEPT !.components[entityId] = corrected,
                        !.inputBuffer[entityId] = unacknowledgedInputs]
         ELSE [m EXCEPT !.inputBuffer[entityId] = unacknowledgedInputs]

NetworkSystem_processServerUpdate(m, entityId, serverPosition, serverVelocity, acknowledgedSequence, timestamp) ==
    IF entityId \notin DOMAIN m.components \/ ~IsSpinner(m.components[entityId]) THEN m
    ELSE LET serverUpdate == [sequenceNumber |-> acknowledgedSequence,
                              timestamp |-> timestamp,
                              position |-> serverPosition,
                              velocity |-> serverVelocity]
             updates == Append(BufferOf(m.serverUpdates, entityId), serverUpdate)
             stored == [m EXCEPT !.components[entityId].lastAcknowledged = acknowledgedSequence,
                                 !.serverUpdates = Put(@, entityId,
                                     IF Len(updates) > 50 THEN Tail(updates) ELSE updates)]
         IN IF m.components[entityId].clientPredicted THEN reconcileWithServer(stored, entityId)
            ELSE stored

cleanOldData(m, entityId, currentTime) ==
    LET fresh(buffer) == SelectSeq(buffer, LAMBDA e : currentTime - e.timestamp < 1000)
    IN [m EXCEPT !.inputBuffer = IF entityId \in DOMAIN @
                                 THEN [@ EXCEPT ![entityId] = fresh(@)] ELSE @,
                 !.serverUpdates = IF entityId \in DOMAIN @
                                   THEN [@ EXCEPT ![entityId] = fresh(@)] ELSE @]

processNetworkEntity(m, entityId, currentTime) ==
    IF ~m.components[entityId].clientPredicted THEN m
    ELSE cleanOldData(reconcileWithServer(m, entityId), entityId, currentTime)

RECURSIVE processNetworkEntities(_, _, _, _)
processNetworkEntities(m, ids, k, currentTime) ==
    IF k > Len(ids) THEN m
    ELSE processNetworkEntities(processNetworkEntity(m, ids[k], currentTime), ids, k + 1,
                                currentTime)

NetworkSystem_update(m, currentTime) ==
    processNetworkEntities(m, getEntitiesWithComponents(m.components, "spinner"), 1, currentTime)

enableClientPrediction(m, entityId) ==
    [m EXCEPT !.components[entityId].clientPredicted = TRUE]

(***************************************************************************)
(* ModularGameEngine.  Operators that draw random numbers take and return  *)
(* a context [m, rng]: the engine and the random index.                    *)
(***************************************************************************)
NewModularGameEngine ==
    [stateManager |-> NewGameStateManager("menu"),
     components |-> <<>>,
     nextEntityId |-> 1,
     playerEntities |-> <<>>,
     collectibleEntities |-> <<>>,
     currentPlayerEntity |-> 0,
     timeElapsed |-> 0,
     inputBuffer |-> <<>>,
     serverUpdates |-> <<>>]

\* world.clear() and the resets of clearGameState
clearGameState(m) ==
    [m EXCEPT !.components = <<>>,
              !.nextEntityId = 1,
              !.playerEntities = <<>>,
              !.collectibleEntities = <<>>,
              !.currentPlayerEntity = 0,
              !.timeElapsed = 0]

isPositionTooCloseToPlayers(m, position, minDistance) ==
    \E playerId \in DOMAIN m.playerEntities :
        /\ m.playerEntities[playerId] \in DOMAIN m.components
        /\ Nearer(position, m.components[m.playerEntities[playerId]].position, minDistance)

\* the do-while of generateSafeDotPosition after `attempts` attempts
RECURSIVE generateSafeDotPosition(_, _, _)
generateSafeDotPosition(m, i, attempts) ==
    LET position == createVector2(
                        clientRandomFloat(i, DOT_RESPAWN_MARGIN, ARENA_WIDTH - DOT_RESPAWN_MARGIN),
                        clientRandomFloat(i + 1, DOT_RESPAWN_MARGIN, ARENA_HEIGHT - DOT_RESPAWN_MARGIN))
    IN IF attempts + 1 < 50 /\ isPositionTooCloseToPlayers(m, position, 60 * U)
       THEN generateSafeDotPosition(m, i + 2, attempts + 1)
       ELSE [position |-> position, rng |-> i + 2]

\* generateSafeDotPosition, createCollectibleDot, collectibleEntities.add
addCollectible(ctx) ==
    LET safe == generateSafeDotPosition(ctx.m, ctx.rng, 0)
        made == createCollectibleDot(ctx.m, safe.position, safe.rng)
    IN [m |-> [made EXCEPT !.collectibleEntities = Append(@, ctx.m.nextEntityId)],
        rng |-> ClientAdvance(safe.rng, 2)]

RECURSIVE generateInitialDots(_, _)
generateInitialDots(ctx, n) ==
    \* (the test of ctx.rng makes TLC evaluate ctx before it descends)
    IF n = 0 \/ ctx.rng < 0 THEN ctx ELSE generateInitialDots(addCollectible(ctx), n - 1)

RECURSIVE refillCollectibles(_)
refillCollectibles(ctx) ==
    IF Len(ctx.m.collectibleEntities) < DOT_COUNT THEN refillCollectibles(addCollectible(ctx))
    ELSE ctx

\* maintainCollectibles without the loop that adds new dots
maintainCollectibles_norefill(ctx) ==
    LET gone == {entityId \in SeqToSet(ctx.m.collectibleEntities) :
                    /\ entityId \in DOMAIN ctx.m.components
                    /\ ctx.m.components[entityId].collected}
    IN [ctx EXCEPT !.m.components = [id \in (DOMAIN @) \ gone |-> @[id]],
                   !.m.collectibleEntities = SelectSeq(@, LAMBDA entityId : entityId \notin gone)]

maintainCollectibles(ctx) ==
    LET collected(entityId) == /\ entityId \in DOMAIN ctx.m.components
                               /\ IsCollectible(ctx.m.components[entityId])
                               /\ ctx.m.components[entityId].collected
        gone == {entityId \in SeqToSet(ctx.m.collectibleEntities) : collected(entityId)}
        kept == [ctx.m EXCEPT
                   !.components = [id \in (DOMAIN @) \ gone |-> @[id]],
                   !.collectibleEntities = SelectSeq(@, LAMBDA entityId : entityId \notin gone)]
    IN refillCollectibles([m |-> kept, rng |-> ctx.rng])

ModularGameEngine_checkGameOver(m) ==
    LET players == {m.playerEntities[playerId] : playerId \in DOMAIN m.playerEntities}
        alivePlayers == {entityId \in players :
                            entityId \notin DOMAIN m.components \/ m.components[entityId].isAlive}
        over == transitionTo(m.stateManager, "game_over").manager
    IN IF Cardinality(players) = 1 /\ m.currentPlayerEntity # 0
       THEN IF m.currentPlayerEntity \in DOMAIN m.components
            THEN LET entity == m.components[m.currentPlayerEntity]
                 IN \* margin = spinner.size / 2: the tests on doubled lengths
                    IF \/ 2 * entity.position.x - entity.size <= 0
                       \/ 2 * entity.position.x + entity.size >= 2 * ARENA_WIDTH
                       \/ 2 * entity.position.y - entity.size <= 0
                       \/ 2 * entity.position.y + entity.size >= 2 * ARENA_HEIGHT
                    THEN [m EXCEPT !.stateManager = over]
                    ELSE m
            ELSE m
       ELSE IF Cardinality(players) > 1 /\ Cardinality(alivePlayers) <= 1
       THEN [m EXCEPT !.stateManager = over]
       ELSE m

ModularGameEngine_startGame(ctx) ==
    LET started == transitionTo(ctx.m.stateManager, "playing")
        cleared == clearGameState([ctx.m EXCEPT !.stateManager = started.manager])
        playerPosition == createVector2(ARENA_WIDTH \div 2, ARENA_HEIGHT \div 2)
        playerEntityId == cleared.nextEntityId
        created == createPlayerSpinner(cleared, "local_player", playerPosition, TRUE, TRUE)
        tracked == enableClientPrediction(
                       [created EXCEPT !.currentPlayerEntity = playerEntityId,
                                       !.playerEntities = Put(@, "local_player", playerEntityId)],
                       playerEntityId)
        dotted == generateInitialDots([m |-> tracked, rng |-> ctx.rng], DOT_COUNT)
    IN IF ~started.success THEN ctx
       ELSE [dotted EXCEPT !.m.timeElapsed = 0]

\* world.update: the systems in the order they were added
World_update(m, dt, currentTime) ==
    NetworkSystem_update(CollisionSystem_update(PhysicsSystem_update(m, dt)), currentTime)

\* ModularGameEngine.update without the test of the phase
ModularGameEngine_update_anyphase(ctx, dt, currentTime) ==
    LET stepped == World_update([ctx.m EXCEPT !.timeElapsed = @ + dt], dt, currentTime)
        maintained == maintainCollectibles([m |-> stepped, rng |-> ctx.rng])
    IN [maintained EXCEPT !.m = ModularGameEngine_checkGameOver(@)]

ModularGameEngine_update(ctx, dt, currentTime) ==
    IF ctx.m.stateManager.currentPhase # "playing" THEN ctx
    ELSE LET stepped == World_update([ctx.m EXCEPT !.timeElapsed = @ + dt], dt, currentTime)
             maintained == maintainCollectibles([m |-> stepped, rng |-> ctx.rng])
         IN [maintained EXCEPT !.m = ModularGameEngine_checkGameOver(@)]

ModularGameEngine_setSpinnerDirection(m, direction, timestamp) ==
    IF m.stateManager.currentPhase # "playing" \/ m.currentPlayerEntity = 0 THEN m
    ELSE setTargetDirection(recordInput(m, m.currentPlayerEntity, direction, timestamp),
                            m.currentPlayerEntity, direction)

ModularGameEngine_stopSpinner(m) ==
    IF m.currentPlayerEntity = 0 THEN m ELSE stopEntity(m, m.currentPlayerEntity)

ModularGameEngine_processServerUpdate(m, playerId, serverPosition, serverVelocity, acknowledgedSequence, timestamp) ==
    IF playerId \notin DOMAIN m.playerEntities THEN m
    ELSE NetworkSystem_processServerUpdate(m, m.playerEntities[playerId], serverPosition,
                                           serverVelocity, acknowledgedSequence, timestamp)

ModularGameEngine_resetToMenu(m) ==
    clearGameState([m EXCEPT !.stateManager = forceTransition(@, "menu")])

(***************************************************************************)
(* GameEngineAdapter: the unified interface dispatches to the modular      *)
(* engine when there is one, else to the legacy engine.                    *)
(***************************************************************************)
HasModular == "stateManager" \in DOMAIN modularEngine
HasLegacy == "spinner" \in DOMAIN legacyEngine
\* the phase shown by getGameState()
ClientPhase ==
    IF HasModular THEN modularEngine.stateManager.currentPhase
    ELSE IF HasLegacy THEN legacyEngine.phase
    ELSE "null"

Called(kind) == [calls EXCEPT ![kind] = @ + 1]

Adapter_startGame ==
    /\ currentEngineType # "none"
    /\ calls.startGame < MaxStarts
    /\ IF HasModular
       THEN LET ctx == ModularGameEngine_startGame([m |-> modularEngine, rng |-> crng])
            IN modularEngine' = ctx.m /\ crng' = ctx.rng /\ UNCHANGED legacyEngine
       ELSE LET ctx == GameEngine_startGame(crng)
            IN legacyEngine' = ctx.gameState /\ crng' = ctx.rng /\ UNCHANGED modularEngine
    /\ calls' = Called("startGame")
    /\ UNCHANGED <<serverVars, lagVars, gridVars, currentEngineType, now>>

Adapter_update(dt) ==
    /\ currentEngineType # "none"
    /\ calls.update < MaxUpdates
    /\ now' = now + dt
    /\ IF HasModular
       THEN LET ctx == ModularGameEngine_update([m |-> modularEngine, rng |-> crng], dt, now')
            IN modularEngine' = ctx.m /\ crng' = ctx.rng /\ UNCHANGED legacyEngine
       ELSE LET ctx == GameEngine_update([gameState |-> legacyEngine, rng |-> crng], dt)
            IN legacyEngine' = ctx.gameState /\ crng' = ctx.rng /\ UNCHANGED modularEngine
    /\ calls' = Called("update")
    /\ UNCHANGED <<serverVars, lagVars, gridVars, currentEngineType>>

Adapter_setSpinnerDirection(direction) ==
    /\ currentEngineType # "none"
    /\ calls.input < MaxInputs
    /\ IF HasModular
       THEN /\ modularEngine' = ModularGameEngine_setSpinnerDirection(modularEngine, direction, now)
            /\ UNCHANGED legacyEngine
       ELSE /\ legacyEngine' = GameEngine_setSpinnerDirection(legacyEngine, direction)
            /\ UNCHANGED modularEngine
    /\ calls' = Called("input")
    /\ UNCHANGED <<serverVars, lagVars, gridVars, currentEngineType, crng, now>>

Adapter_stopSpinner ==
    /\ currentEngineType # "none"
    /\ IF HasModular
       THEN /\ modularEngine' = ModularGameEngine_stopSpinner(modularEngine)
            /\ UNCHANGED legacyEngine
       ELSE /\ legacyEngine' = GameEngine_stopSpinner(legacyEngine)
            /\ UNCHANGED modularEngine
    /\ UNCHANGED <<serverVars, lagVars, gridVars, currentEngineType, crng, now, calls>>

Adapter_resetToMenu ==
    /\ currentEngineType # "none"
    /\ calls.resetToMenu < MaxResets
    /\ IF HasModular
       THEN /\ modularEngine' = ModularGameEngine_resetToMenu(modularEngine)
            /\ UNCHANGED legacyEngine
       ELSE /\ legacyEngine' = GameEngine_resetToMenu(legacyEngine)
            /\ UNCHANGED modularEngine
    /\ calls' = Called("resetToMenu")
    /\ UNCHANGED <<serverVars, lagVars, gridVars, currentEngineType, crng, now>>

\* the constructor of GameEngineAdapter; the server has no connection
InitClient ==
    /\ gameRooms = [c \in Codes |-> NoRoom]
    /\ rooms = {}
    /\ playerRooms = [s \in Sockets |-> 0]
    /\ sockets = [s \in Sockets |-> "closed"]
    /\ rng = 0
    /\ out = <<>>
    /\ joins = 0
    /\ currentEngineType \in {"legacy", "modular"}
    /\ legacyEngine = IF currentEngineType = "legacy" THEN createInitialState ELSE NoEngine
    /\ modularEngine = IF currentEngineType = "modular" THEN NewModularGameEngine ELSE NoEngine
    /\ crng \in Seeds
    /\ now = 0
    /\ calls = NoCalls /\ NoLag /\ NoGrid

NextEngine ==
    \/ Adapter_startGame
    \/ \E dt \in ClientDeltaMs : Adapter_update(dt)
    \/ \E direction \in ClientDirections : Adapter_setSpinnerDirection(direction)
    \/ Adapter_stopSpinner
    \/ Adapter_resetToMenu

SpecEngine == InitClient /\ [][NextEngine]_vars

(***************************************************************************)
(* Play: either the server runs one game in one room and no adapter is     *)
(* built, or an adapter runs an engine and the server has no connection.   *)
(***************************************************************************)
InitPlay == InitGame \/ InitClient
NextPlay == NextGame \/ NextEngine
SpecPlay == InitPlay /\ [][NextPlay]_vars

\* the dots of getGameState(): the legacy engine's array, or the tracked entities of the
\* modular engine that are in the world and not collected
LiveCollectibles ==
    IF HasModular
    THEN Cardinality({entityId \in SeqToSet(modularEngine.collectibleEntities) :
                         /\ entityId \in DOMAIN modularEngine.components
                         /\ ~modularEngine.components[entityId].collected})
    ELSE Len(legacyEngine.dots)

(***************************************************************************)
(* Collisions between actors: two actors at rest that overlap, with sizes  *)
(* they have grown to, in a room of the server or in the world of the      *)
(* modular engine after startMultiplayerGame.                              *)
(***************************************************************************)
CollideSizes == {25 * U, 30 * U, 32 * U + 14, 32 * U + 16, 40 * U}
CollideOffsets == {5 * U, 10 * U}       \* distance between the two centres
Centre == createVector2(ARENA_WIDTH \div 2, ARENA_HEIGHT \div 2)

\* the loop of startMultiplayerGame over players[k ..]
RECURSIVE createPlayerEntities(_, _, _)
createPlayerEntities(m, players, k) ==
    IF k > Len(players) THEN m
    ELSE LET playerData == players[k]
             entityId == m.nextEntityId
             isCurrentPlayer == playerData.id = "local_player"
             created == createPlayerSpinner(m, playerData.id, playerData.position,
                                            isCurrentPlayer, playerData.isHost)
             tracked == [created EXCEPT !.playerEntities = Put(@, playerData.id, entityId)]
             current == IF isCurrentPlayer
                        THEN enableClientPrediction(
                                 [tracked EXCEPT !.currentPlayerEntity = entityId], entityId)
                        ELSE tracked
         IN createPlayerEntities(current, players, k + 1)

ModularGameEngine_startMultiplayerGame(ctx, players) ==
    LET started == transitionTo(ctx.m.stateManager, "playing")
        cleared == clearGameState([ctx.m EXCEPT !.stateManager = started.manager])
        created == createPlayerEntities(cleared, players, 1)
        dotted == generateInitialDots([m |-> created, rng |-> ctx.rng], DOT_COUNT)
    IN IF ~started.success THEN ctx
       ELSE [dotted EXCEPT !.m.timeElapsed = 0]

\* the room of InitGame, its two players grown to size1 and size2 and come to rest
\* `offset` apart around the centre of the arena
CollideRoom(seed, size1, size2, offset) ==
    LET lobby == Entered(GamePlayers, seed)
        result == startGame(lobby.room, 1, lobby.rng)
        grown(p, size, position) ==
            [p EXCEPT !.score = size,
                      !.spinner.size = size,
                      !.spinner.maxSpeed = MaxSpeedFor(size),
                      !.spinner.position = position]
    IN [room |-> [result.room EXCEPT
                    !.pd[1] = grown(@, size1, Centre),
                    !.pd[2] = grown(@, size2, createVector2(Centre.x + offset, Centre.y))],
        rng |-> Advance(lobby.rng, result.draws)]

\* the modular engine after startMultiplayerGame with two players, grown likewise
CollideEngine(seed, size1, size2, offset) ==
    LET players == <<[id |-> "local_player", position |-> Centre, isHost |-> TRUE],
                     [id |-> "remote_player",
                      position |-> createVector2(Centre.x + offset, Centre.y),
                      isHost |-> FALSE]>>
        ctx == ModularGameEngine_startMultiplayerGame(
                   [m |-> NewModularGameEngine, rng |-> seed], players)
        grown(entity, size) == [entity EXCEPT !.size = size, !.score = size]
    IN [ctx EXCEPT !.m.components[1] = grown(@, size1),
                   !.m.components[2] = grown(@, size2)]

InitCollide ==
    \E seed \in Seeds : \E size1, size2 \in CollideSizes : \E offset \in CollideOffsets :
        \/ LET game == CollideRoom(seed, size1, size2, offset)
           IN /\ gameRooms = [c \in Codes |-> IF c = 1 THEN game.room ELSE NoRoom]
              /\ rooms = {1}
              /\ playerRooms = [s \in Sockets |-> IF s <= GamePlayers THEN 1 ELSE 0]
              /\ sockets = [s \in Sockets |-> "open"]
              /\ rng = game.rng
              /\ out = <<>>
              /\ joins = GamePlayers - 1
              /\ NoClient /\ NoLag /\ NoGrid
        \/ LET ctx == CollideEngine(seed, size1, size2, offset)
           IN /\ gameRooms = [c \in Codes |-> NoRoom]
              /\ rooms = {}
              /\ playerRooms = [s \in Sockets |-> 0]
              /\ sockets = [s \in Sockets |-> "closed"]
              /\ rng = 0
              /\ out = <<>>
              /\ joins = 0
              /\ currentEngineType = "modular"
              /\ legacyEngine = NoEngine
              /\ modularEngine = ctx.m
              /\ crng = ctx.rng
              /\ now = 0
              /\ calls = NoCalls /\ NoLag /\ NoGrid

NextCollide ==
    \/ \E c \in Codes : \E dt \in DeltaMs : GameLoop(c, dt)
    \/ \E dt \in ClientDeltaMs : Adapter_update(dt)

SpecCollide == InitCollide /\ [][NextCollide]_vars

(***************************************************************************)
(* Prediction: the modular engine, its inputs and the authoritative        *)
(* updates of the server, which acknowledges sequence numbers the player   *)
(* has sent in the running game.                                           *)
(***************************************************************************)
ServerPositions == {Centre, createVector2(Centre.x + 10 * U, Centre.y)}
ServerVelocities == {createVector2(0, 0)}

\* the sequence numbers the current player has sent since the game started
SentSequences ==
    IF HasModular /\ modularEngine.currentPlayerEntity \in DOMAIN modularEngine.components
    THEN 1..modularEngine.components[modularEngine.currentPlayerEntity].sequenceNumber
    ELSE {}

Adapter_processServerUpdate(playerId, serverPosition, serverVelocity, acknowledgedSequence) ==
    /\ currentEngineType # "none"
    /\ calls.server < MaxServerUpdates
    /\ IF HasModular
       THEN modularEngine' = ModularGameEngine_processServerUpdate(
                                 modularEngine, playerId, serverPosition, serverVelocity,
                                 acknowledgedSequence, now)
       ELSE UNCHANGED modularEngine
    /\ calls' = Called("server")
    /\ UNCHANGED <<serverVars, lagVars, gridVars, currentEngineType, legacyEngine, crng, now>>

InitNet == InitClient /\ currentEngineType = "modular" /\ crng = 0

NextNet ==
    \/ Adapter_startGame
    \/ \E dt \in ClientDeltaMs : Adapter_update(dt)
    \/ \E direction \in ClientDirections : Adapter_setSpinnerDirection(direction)
    \/ Adapter_resetToMenu
    \/ \E serverPosition \in ServerPositions : \E serverVelocity \in ServerVelocities :
           \E acknowledgedSequence \in SentSequences :
               Adapter_processServerUpdate("local_player", serverPosition, serverVelocity,
                                           acknowledgedSequence)

SpecNet == InitNet /\ [][NextNet]_vars

(***************************************************************************)
(* Growth in the world of the modular engine: three players, of whom the   *)
(* local player has grown to sizeA and come to rest `gap` short of         *)
(* touching the first dot, overlapping a second player of size sizeB.      *)
(***************************************************************************)
GrowSizes == {30 * U, 60 * U, 90 * U}
GrowGaps == {5 * U, 6 * U + 16, 8 * U}

GrowEngine(seed, sizeA, sizeB, gap) ==
    LET players == <<[id |-> "local_player", position |-> Centre, isHost |-> TRUE],
                     [id |-> "player_2",
                      position |-> createVector2(Centre.x + 150 * U, Centre.y),
                      isHost |-> FALSE],
                     [id |-> "player_3",
                      position |-> createVector2(Centre.x - 150 * U, Centre.y),
                      isHost |-> FALSE]>>
        ctx == ModularGameEngine_startMultiplayerGame(
                   [m |-> NewModularGameEngine, rng |-> seed], players)
        dot == ctx.m.components[ctx.m.collectibleEntities[1]]
        reach == ctx.m.components[1].radius + dot.radius
        positionA == createVector2(dot.position.x, dot.position.y - reach - gap)
        grown(entity, size, position) ==
            [entity EXCEPT !.size = size, !.score = size,
                           !.position = position, !.previousPosition = position]
    IN [ctx EXCEPT
          !.m.components[1] = grown(@, sizeA, positionA),
          !.m.components[2] = grown(@, sizeB, createVector2(positionA.x + 5 * U, positionA.y))]

InitGrow ==
    \E seed \in Seeds : \E sizeA, sizeB \in GrowSizes : \E gap \in GrowGaps :
        LET ctx == GrowEngine(seed, sizeA, sizeB, gap)
        IN /\ gameRooms = [c \in Codes |-> NoRoom]
           /\ rooms = {}
           /\ playerRooms = [s \in Sockets |-> 0]
           /\ sockets = [s \in Sockets |-> "closed"]
           /\ rng = 0
           /\ out = <<>>
           /\ joins = 0
           /\ currentEngineType = "modular"
           /\ legacyEngine = NoEngine
           /\ modularEngine = ctx.m
           /\ crng = ctx.rng
           /\ now = 0
           /\ calls = NoCalls /\ NoLag /\ NoGrid

NextGrow ==
    \/ \E dt \in ClientDeltaMs : Adapter_update(dt)
    \/ \E direction \in ClientDirections : Adapter_setSpinnerDirection(direction)

SpecGrow == InitGrow /\ [][NextGrow]_vars

(***************************************************************************)
(* Pickup in a room: the players are at rest, the first has grown to       *)
(* `size`, and the k-th dot of the room lies `offset` beside that player   *)
(* with the value `value`.                                                 *)
(***************************************************************************)
PickupSizes == {25 * U, 40 * U}
PickupValues == {1 * U, 3 * U, 5 * U}
PickupIndices == {1, 13, DOT_COUNT}
PickupOffsets == {0, 20 * U}

PickupRoom(seed, size, k, value, offset) ==
    LET lobby == Entered(GamePlayers, seed)
        result == startGame(lobby.room, 1, lobby.rng)
        spinner == result.room.pd[1].spinner
        dot == [position |-> createVector2(spinner.position.x + offset, spinner.position.y),
                size |-> DOT_MIN_SIZE, value |-> value]
    IN [room |-> [result.room EXCEPT
                    !.pd[1].score = size,
                    !.pd[1].spinner.size = size,
                    !.pd[1].spinner.maxSpeed = MaxSpeedFor(size),
                    !.dots[k] = dot],
        rng |-> Advance(lobby.rng, result.draws)]

InitPickup ==
    \E seed \in Seeds : \E size \in PickupSizes : \E k \in PickupIndices :
        \E value \in PickupValues : \E offset \in PickupOffsets :
            LET game == PickupRoom(seed, size, k, value, offset)
            IN /\ gameRooms = [c \in Codes |-> IF c = 1 THEN game.room ELSE NoRoom]
               /\ rooms = {1}
               /\ playerRooms = [s \in Sockets |-> IF s <= GamePlayers THEN 1 ELSE 0]
               /\ sockets = [s \in Sockets |-> "open"]
               /\ rng = game.rng
               /\ out = <<>>
               /\ joins = GamePlayers - 1
               /\ NoClient /\ NoLag /\ NoGrid

NextPickup == \E c \in Codes : \E dt \in DeltaMs : GameLoop(c, dt)

SpecPickup == InitPickup /\ [][NextPickup]_vars

(***************************************************************************)
(* LagCompensation.ts: the LagCompensationManager of the server.  Times    *)
(* are milliseconds; positions and sizes of the snapshots are pixels.      *)
(***************************************************************************)
maxHistoryDuration == 1000
INPUT_BUFFER_LENGTH == 1000                  \* inputBuffer.length > 1000
DEFAULT_LATENCY == 50
MAX_LATENCY == 500
MIN_LATENCY == 10
SAMPLE_SIZE == 10

\* null, undefined
Null == [playerId |-> 0]

\* the loop of takeSnapshot over gameState.players
PlayerSnapshots(gameState, timestamp) ==
    [i \in 1..Len(gameState.gsPlayers) |->
        LET playerData == gameState.pd[gameState.gsPlayers[i]]
        IN [playerId |-> gameState.gsPlayers[i],
            timestamp |-> timestamp,
            position |-> playerData.spinner.position,
            velocity |-> playerData.spinner.velocity,
            size |-> playerData.spinner.size,
            isAlive |-> playerData.isAlive]]

cleanOldSnapshots(m, timestamp) ==
    LET cutoffTime == timestamp - maxHistoryDuration
    IN [worldHistory |-> SelectSeq(m.worldHistory, LAMBDA snapshot : snapshot.timestamp > cutoffTime),
        inputBuffer |-> SelectSeq(m.inputBuffer, LAMBDA input : input.timestamp > cutoffTime)]

takeSnapshot(m, gameState, timestamp) ==
    LET snapshot == [timestamp |-> timestamp, players |-> PlayerSnapshots(gameState, timestamp)]
    IN cleanOldSnapshots([m EXCEPT !.worldHistory = Append(@, snapshot)], timestamp)

\* recordInput without the shift of a buffer that has grown too long
LagCompensationManager_recordInput_unbounded(m, playerId, direction, sequenceNumber, clientTimestamp, serverTimestamp) ==
    LET inputEvent == [playerId |-> playerId, timestamp |-> serverTimestamp,
                       sequenceNumber |-> sequenceNumber, direction |-> direction,
                       clientTimestamp |-> clientTimestamp]
    IN [m EXCEPT !.inputBuffer = Append(@, inputEvent)]

LagCompensationManager_recordInput(m, playerId, direction, sequenceNumber, clientTimestamp, serverTimestamp) ==
    LET inputEvent == [playerId |-> playerId, timestamp |-> serverTimestamp,
                       sequenceNumber |-> sequenceNumber, direction |-> direction,
                       clientTimestamp |-> clientTimestamp]
        pushed == Append(m.inputBuffer, inputEvent)
    IN [m EXCEPT !.inputBuffer = IF Len(pushed) > INPUT_BUFFER_LENGTH THEN Tail(pushed) ELSE pushed]

\* the loop of getSnapshotAtTime from index i on, best being the index kept so far
RECURSIVE bestSnapshotFrom(_, _, _, _)
bestSnapshotFrom(worldHistory, timestamp, i, best) ==
    IF i > Len(worldHistory) THEN best
    ELSE IF Abs(worldHistory[i].timestamp - timestamp) < Abs(worldHistory[best].timestamp - timestamp)
    THEN bestSnapshotFrom(worldHistory, timestamp, i + 1, i)
    ELSE bestSnapshotFrom(worldHistory, timestamp, i + 1, best)

\* getSnapshotAtTime that accepts the closest snapshot however far it is
getSnapshotAtTime_anyage(m, timestamp) ==
    IF Len(m.worldHistory) = 0 THEN Null
    ELSE m.worldHistory[bestSnapshotFrom(m.worldHistory, timestamp, 1, 1)]

getSnapshotAtTime(m, timestamp) ==
    IF Len(m.worldHistory) = 0 THEN Null
    ELSE LET best == bestSnapshotFrom(m.worldHistory, timestamp, 1, 1)
             bestTimeDiff == Abs(m.worldHistory[best].timestamp - timestamp)
         IN IF bestTimeDiff > maxHistoryDuration THEN Null ELSE m.worldHistory[best]

\* Array.prototype.find on the players of a snapshot
findPlayer(players, playerId) ==
    LET found == SelectSeq(players, LAMBDA p : p.playerId = playerId)
    IN IF Len(found) = 0 THEN Null ELSE found[1]

\* Math.sqrt(dx * dx + dy * dy) <= (size1 + size2) / 2, on the squares
WithinHitRange(attackerState, targetState) ==
    LET dx == attackerState.position.x - targetState.position.x
        dy == attackerState.position.y - targetState.position.y
        sizes == attackerState.size + targetState.size
    IN 4 * (dx * dx + dy * dy) <= sizes * sizes

\* validateHit that does not look at isAlive
validateHit_ghosts(m, attackerPlayerId, targetPlayerId, clientTimestamp, estimatedLatency) ==
    LET rewindTime == clientTimestamp - estimatedLatency
        rewindSnapshot == getSnapshotAtTime(m, rewindTime)
    IN IF rewindSnapshot = Null
       THEN [isValid |-> FALSE, rewindTime |-> rewindTime, attackerState |-> Null, targetState |-> Null]
       ELSE LET attackerState == findPlayer(rewindSnapshot.players, attackerPlayerId)
                targetState == findPlayer(rewindSnapshot.players, targetPlayerId)
            IN [isValid |-> attackerState # Null /\ targetState # Null
                            /\ WithinHitRange(attackerState, targetState),
                rewindTime |-> rewindTime,
                attackerState |-> attackerState, targetState |-> targetState]

validateHit(m, attackerPlayerId, targetPlayerId, clientTimestamp, estimatedLatency) ==
    LET rewindTime == clientTimestamp - estimatedLatency
        rewindSnapshot == getSnapshotAtTime(m, rewindTime)
    IN IF rewindSnapshot = Null
       THEN [isValid |-> FALSE, rewindTime |-> rewindTime, attackerState |-> Null, targetState |-> Null]
       ELSE LET attackerState == findPlayer(rewindSnapshot.players, attackerPlayerId)
                targetState == findPlayer(rewindSnapshot.players, targetPlayerId)
            IN IF attackerState = Null \/ targetState = Null
               THEN [isValid |-> FALSE, rewindTime |-> rewindTime,
                     attackerState |-> attackerState, targetState |-> targetState]
               ELSE IF ~attackerState.isAlive \/ ~targetState.isAlive
               THEN [isValid |-> FALSE, rewindTime |-> rewindTime,
                     attackerState |-> attackerState, targetState |-> targetState]
               ELSE [isValid |-> WithinHitRange(attackerState, targetState),
                     rewindTime |-> rewindTime,
                     attackerState |-> attackerState, targetState |-> targetState]

InputsOf(m, playerId) == SelectSeq(m.inputBuffer, LAMBDA input : input.playerId = playerId)

getLatestInput(m, playerId) ==
    LET inputs == InputsOf(m, playerId)
    IN IF Len(inputs) = 0 THEN Null ELSE inputs[Len(inputs)]

getInputsSince(m, playerId, sequenceNumber) ==
    SelectSeq(m.inputBuffer,
              LAMBDA input : input.playerId = playerId /\ input.sequenceNumber > sequenceNumber)

RECURSIVE SumLatencies(_, _)
SumLatencies(inputs, i) ==
    IF i > Len(inputs) THEN 0
    ELSE inputs[i].timestamp - inputs[i].clientTimestamp + SumLatencies(inputs, i + 1)

\* estimatePlayerLatency that averages over every input of the player
estimatePlayerLatency_all(m, playerId) ==
    LET recentInputs == InputsOf(m, playerId)
        count == Len(recentInputs)
        sum == SumLatencies(recentInputs, 1)
    IN IF count = 0 THEN [sum |-> DEFAULT_LATENCY, count |-> 1]
       ELSE IF sum > MAX_LATENCY * count THEN [sum |-> MAX_LATENCY, count |-> 1]
       ELSE IF sum < MIN_LATENCY * count THEN [sum |-> MIN_LATENCY, count |-> 1]
       ELSE [sum |-> sum, count |-> count]

\* the average as the fraction sum / count, clamped to [10, 500]
estimatePlayerLatency(m, playerId) ==
    LET inputs == InputsOf(m, playerId)
        recentInputs == SubSeq(inputs, Max(1, Len(inputs) - SAMPLE_SIZE + 1), Len(inputs))
        count == Len(recentInputs)
        sum == SumLatencies(recentInputs, 1)
    IN IF count = 0 THEN [sum |-> DEFAULT_LATENCY, count |-> 1]
       ELSE IF sum > MAX_LATENCY * count THEN [sum |-> MAX_LATENCY, count |-> 1]
       ELSE IF sum < MIN_LATENCY * count THEN [sum |-> MIN_LATENCY, count |-> 1]
       ELSE [sum |-> sum, count |-> count]

(***************************************************************************)
(* The calls made to a LagCompensationManager: snapshots of a game of two  *)
(* players, inputs of the players, and hit validations                     *)
(***************************************************************************)
MaxLagTime == 2400
LagDeltaMs == {600}
LagPlayers == {1, 2}
LagLatencies == {50, 1500}
LagClientDelays == {0, 250}
LagTargetPositions == {createVector2(30, 40), createVector2(31, 40)}
LagTargetSizes == {49, 50, 51}

LagPlayer(position, size, isAlive) ==
    [spinner |-> [position |-> position, velocity |-> createVector2(0, 0), size |-> size],
     isAlive |-> isAlive]

\* game states: player 1 at the origin with size 50, player 2 near the hit range,
\* alive or eliminated, or gone from the game
LagWorlds ==
    {[gsPlayers |-> <<1, 2>>,
      pd |-> <<LagPlayer(createVector2(0, 0), 50, TRUE), LagPlayer(position, size, TRUE)>>] :
        position \in LagTargetPositions, size \in LagTargetSizes}
    \cup {[gsPlayers |-> <<1, 2>>,
           pd |-> <<LagPlayer(createVector2(0, 0), 50, TRUE),
                    LagPlayer(createVector2(30, 40), 50, FALSE)>>],
          [gsPlayers |-> <<1>>, pd |-> <<LagPlayer(createVector2(0, 0), 50, TRUE)>>]}

Lag_takeSnapshot(gameState, dt) ==
    /\ serverNow + dt <= MaxLagTime
    /\ serverNow' = serverNow + dt
    /\ lagCompensation' = takeSnapshot(lagCompensation, gameState, serverNow')
    /\ returned' = [call |-> "takeSnapshot"]
    /\ UNCHANGED <<serverVars, clientVars, gridVars>>

\* a client sends its inputs with increasing sequence numbers
Lag_recordInput(playerId, latency, dt) ==
    /\ serverNow + dt <= MaxLagTime
    /\ serverNow' = serverNow + dt
    /\ LET latest == getLatestInput(lagCompensation, playerId)
           sequenceNumber == IF latest = Null THEN 1 ELSE latest.sequenceNumber + 1
       IN lagCompensation' = LagCompensationManager_recordInput(
              lagCompensation, playerId, createVector2(1, 0),
              sequenceNumber, serverNow' - latency, serverNow')
    /\ returned' = [call |-> "recordInput", playerId |-> playerId]
    /\ UNCHANGED <<serverVars, clientVars, gridVars>>

Lag_validateHit(attackerPlayerId, targetPlayerId, clientTimestamp, estimatedLatency) ==
    /\ returned' = [call |-> "validateHit",
                    attackerPlayerId |-> attackerPlayerId, targetPlayerId |-> targetPlayerId,
                    clientTimestamp |-> clientTimestamp, estimatedLatency |-> estimatedLatency,
                    result |-> validateHit(lagCompensation, attackerPlayerId, targetPlayerId,
                                           clientTimestamp, estimatedLatency)]
    /\ UNCHANGED <<lagCompensation, serverNow, serverVars, clientVars, gridVars>>

\* no connection, no room, no adapter: only the manager is called
InitLag ==
    /\ gameRooms = [c \in Codes |-> NoRoom]
    /\ rooms = {}
    /\ playerRooms = [s \in Sockets |-> 0]
    /\ sockets = [s \in Sockets |-> "closed"]
    /\ rng = 0
    /\ out = <<>>
    /\ joins = 0
    /\ NoClient /\ NoLag /\ NoGrid

NextLag ==
    \/ \E gameState \in LagWorlds : \E dt \in LagDeltaMs : Lag_takeSnapshot(gameState, dt)
    \/ \E p \in LagPlayers : \E latency \in LagLatencies : \E dt \in LagDeltaMs :
          Lag_recordInput(p, latency, dt)
    \/ \E a, t \in LagPlayers : \E delay \in LagClientDelays : \E latency \in LagLatencies :
          Lag_validateHit(a, t, serverNow - delay, latency)

SpecLag == InitLag /\ [][NextLag]_vars

(***************************************************************************)
(* Buffers close to their limits.  Either a LagCompensationManager has     *)
(* recorded one input per millisecond, the first of them from player       *)
(* `first`, or a modular engine has started a game, received server        *)
(* updates before any input was sent, and then recorded inputs without an  *)
(* update of the world in between.                                         *)
(***************************************************************************)
INPUT_FRAMES_LENGTH == 100                   \* buffer.length > 100
SERVER_UPDATES_LENGTH == 50                  \* updates.length > 50
FilledShort == {1, 2}                        \* entries missing for the buffer to be full

FilledLagManager(first, n) ==
    [worldHistory |-> <<>>,
     inputBuffer |-> [i \in 1..n |->
                        [playerId |-> IF i = 1 THEN first ELSE 1,
                         timestamp |-> i,
                         sequenceNumber |-> IF i = 1 \/ first # 1 THEN Max(1, i - 1) ELSE i,
                         direction |-> createVector2(1, 0),
                         clientTimestamp |-> i - DEFAULT_LATENCY]]]

FilledEngine(inputs, updates) ==
    LET started == ModularGameEngine_startGame([m |-> NewModularGameEngine, rng |-> 0])
        entityId == started.m.currentPlayerEntity
        entity == started.m.components[entityId]
        direction == createVector2(0, 1)
    IN [started EXCEPT
          !.m.components[entityId].sequenceNumber = inputs,
          !.m.components[entityId].targetDirection = direction,
          !.m.components[entityId].lastAcknowledged = 0,
          !.m.serverUpdates = Put(@, entityId,
              [i \in 1..updates |-> [sequenceNumber |-> 0, timestamp |-> 0,
                                     position |-> entity.position, velocity |-> entity.velocity]]),
          !.m.inputBuffer = Put(@, entityId,
              [i \in 1..inputs |-> [sequenceNumber |-> i, timestamp |-> 0,
                                    direction |-> direction,
                                    position |-> entity.position, velocity |-> entity.velocity]])]

InitBuffers ==
    /\ NoGrid
    /\ gameRooms = [c \in Codes |-> NoRoom]
    /\ rooms = {}
    /\ playerRooms = [s \in Sockets |-> 0]
    /\ sockets = [s \in Sockets |-> "closed"]
    /\ rng = 0
    /\ out = <<>>
    /\ joins = 0
    /\ \/ /\ NoClient
          /\ \E first \in LagPlayers : \E short \in FilledShort :
                /\ lagCompensation = FilledLagManager(first, INPUT_BUFFER_LENGTH - short)
                /\ serverNow = INPUT_BUFFER_LENGTH - short
          /\ returned = NoReturn
       \/ /\ NoLag
          /\ currentEngineType = "modular"
          /\ legacyEngine = NoEngine
          /\ \E short \in FilledShort :
                LET filled == FilledEngine(INPUT_FRAMES_LENGTH - short, SERVER_UPDATES_LENGTH - short)
                IN modularEngine = filled.m /\ crng = filled.rng
          /\ now = 0
          /\ calls = [NoCalls EXCEPT !.startGame = 1]

\* the sequence numbers acknowledged by the server: the oldest frame and the newest
BufferedSequences ==
    IF ~HasModular THEN {}
    ELSE LET buffer == BufferOf(modularEngine.inputBuffer, modularEngine.currentPlayerEntity)
         IN IF Len(buffer) = 0 THEN {}
            ELSE {buffer[1].sequenceNumber, buffer[Len(buffer)].sequenceNumber}

NextBuffers ==
    \/ \E p \in LagPlayers : \E dt \in LagDeltaMs :
          currentEngineType = "none" /\ Lag_recordInput(p, DEFAULT_LATENCY, dt)
    \/ \E gameState \in LagWorlds : \E dt \in LagDeltaMs :
          currentEngineType = "none" /\ Lag_takeSnapshot(gameState, dt)
    \/ \E direction \in ClientDirections : Adapter_setSpinnerDirection(direction)
    \/ \E dt \in ClientDeltaMs : Adapter_update(dt)
    \/ \E serverPosition \in ServerPositions : \E acknowledgedSequence \in BufferedSequences :
          Adapter_processServerUpdate("local_player", serverPosition, createVector2(0, 0),
                                      acknowledgedSequence)

SpecBuffers == InitBuffers /\ [][NextBuffers]_vars

(***************************************************************************)
(* Properties of the rooms                                                 *)
(***************************************************************************)
Constructed == {c \in Codes : gameRooms[c] # NoRoom}
Hosts(r) == {id \in SeqToSet(r.players) : r.pd[id].isHost}

\* C1: whenever a room is non-empty, exactly one of its players has
\* isHost = TRUE, after any sequence of CREATE_ROOM, JOIN_ROOM and disconnect.
C1_ExactlyOneHost ==
    \A c \in Constructed :
        Len(gameRooms[c].players) > 0 => Cardinality(Hosts(gameRooms[c])) = 1

\* C2: the number of players of a room is always between 0 and
\* MAX_PLAYERS_PER_ROOM, and addPlayer on a room that holds MAX_PLAYERS_PER_ROOM
\* players returns success = FALSE with the error 'Room is full' and leaves the
\* room as it was, whoever asks.
C2_RoomCapacity ==
    \A c \in Constructed :
        LET r == gameRooms[c]
        IN /\ Len(r.players) \in 0..MAX_PLAYERS_PER_ROOM
           /\ Cardinality(SeqToSet(r.players)) = Len(r.players)
           /\ Len(r.players) = MAX_PLAYERS_PER_ROOM =>
                 \A s \in Sockets :
                     LET result == addPlayer(r, s, rng)
                     IN /\ ~result.success
                        /\ result.error = "Room is full"
                        /\ result.room = r

\* a JOIN_ROOM for a room of MAX_PLAYERS_PER_ROOM players was just answered
C2_FullRoomRefused ==
    \E c \in Constructed :
        /\ Len(gameRooms[c].players) = MAX_PLAYERS_PER_ROOM
        /\ Len(out) = 1
        /\ out[1].type = "ERROR"
        /\ out[1].error = "Room is full"

\* C3: startGame in a room of exactly one player fails for every requester and
\* leaves phase and isPlaying as they were; in a room of at least two players
\* that is not playing, the request of the host succeeds and sets the phase to
\* 'playing' and isPlaying to TRUE.
C3_StartGame ==
    \A c \in Constructed :
        LET r == gameRooms[c]
        IN /\ Len(r.players) = 1 =>
                 \A s \in Sockets :
                     LET result == startGame(r, s, rng)
                     IN /\ ~result.success
                        /\ result.room.phase = r.phase
                        /\ result.room.isPlaying = r.isPlaying
           /\ (Len(r.players) >= 2 /\ ~r.isPlaying) =>
                 LET result == startGame(r, r.host, rng)
                 IN /\ result.success
                    /\ result.room.phase = "playing"
                    /\ result.room.isPlaying

\* the host's START_GAME was just accepted in a room of at least two players
C3_GameStarted ==
    \E c \in Constructed :
        /\ Len(gameRooms[c].players) >= 2
        /\ gameRooms[c].isPlaying
        /\ gameRooms[c].phase = "playing"
        /\ Len(out) = 2
        /\ out[1].type = "GAME_STARTED"

\* C9: no room is out of the registry while its tick-loop timer
\* (gameLoopInterval) is still active.
C9_NoOrphanTimer ==
    \A c \in Constructed : c \notin rooms => ~gameRooms[c].gameLoopInterval

(***************************************************************************)
(* Properties of the tick                                                  *)
(***************************************************************************)
\* radius <= x <= ARENA_WIDTH - radius and the same for y, radius = size / 2
\* (on doubled lengths)
InArena(spinner) ==
    /\ spinner.size <= 2 * spinner.position.x
    /\ 2 * spinner.position.x <= 2 * ARENA_WIDTH - spinner.size
    /\ spinner.size <= 2 * spinner.position.y
    /\ 2 * spinner.position.y <= 2 * ARENA_HEIGHT - spinner.size

\* C4: after every completed tick, every alive actor is inside the arena
\* by its collision radius (size / 2) as it is at the end of the tick.
C4_ActorsInArena ==
    \A c \in Constructed :
        \A id \in SeqToSet(gameRooms[c].gsPlayers) :
            gameRooms[c].pd[id].isAlive => InArena(gameRooms[c].pd[id].spinner)

\* C5: after every completed tick that leaves the game in phase 'playing', the number
\* of live collectibles is DOT_COUNT - in the server room (GameRoom.updateGame), in the
\* modular engine (ModularGameEngine.update) and in the legacy engine (GameEngine.update)
C5_TickStep ==
    /\ \A c \in Codes :
          (/\ c \in rooms
           /\ gameRooms'[c].ticks > gameRooms[c].ticks
           /\ gameRooms'[c].phase = "playing")
          => Len(gameRooms'[c].dots) = DOT_COUNT
    /\ (calls'.update > calls.update /\ ClientPhase' = "playing")
          => /\ LiveCollectibles' = DOT_COUNT
             /\ HasModular' =>
                   Cardinality({id \in DOMAIN modularEngine'.components :
                                   IsCollectible(modularEngine'.components[id])}) = DOT_COUNT
C5_DotsRestored == [][C5_TickStep]_vars

\* a tick of the modular engine in which the spinner collected a dot has completed
C5_DotReplaced ==
    /\ HasModular
    /\ modularEngine.stateManager.currentPhase = "playing"
    /\ modularEngine.currentPlayerEntity \in DOMAIN modularEngine.components
    /\ modularEngine.components[modularEngine.currentPlayerEntity].size
           > CLIENT_SPINNER_INITIAL_SIZE
    /\ LiveCollectibles = DOT_COUNT

\* C6: when a tick finds two alive overlapping actors at rest, and the larger is at
\* least 1.3 times the smaller, the smaller (and only it) ends the tick with
\* isAlive = FALSE and the larger has gained exactly half of the smaller's size;
\* with a ratio below 1.3 both stay alive with their sizes (server room and ECS world)
C6_TickStep ==
    /\ \A c \in rooms : \A p, q \in SeqToSet(gameRooms[c].gsPlayers) :
          LET larger == gameRooms[c].pd[p]
              smaller == gameRooms[c].pd[q]
          IN /\ gameRooms'[c].ticks > gameRooms[c].ticks
             /\ p # q /\ larger.isAlive /\ smaller.isAlive
             /\ larger.spinner.size >= smaller.spinner.size
             /\ circleCollision(createVector2(2 * larger.spinner.position.x,
                                              2 * larger.spinner.position.y),
                                larger.spinner.size,
                                createVector2(2 * smaller.spinner.position.x,
                                              2 * smaller.spinner.position.y),
                                smaller.spinner.size)
             => IF 10 * larger.spinner.size >= 13 * smaller.spinner.size
                THEN /\ gameRooms'[c].pd[p].isAlive
                     /\ ~gameRooms'[c].pd[q].isAlive
                     /\ gameRooms'[c].pd[p].spinner.size
                            = larger.spinner.size + smaller.spinner.size \div 2
                     /\ gameRooms'[c].pd[q].spinner.size = smaller.spinner.size
                ELSE /\ gameRooms'[c].pd[p].isAlive
                     /\ gameRooms'[c].pd[q].isAlive
                     /\ gameRooms'[c].pd[p].spinner.size = larger.spinner.size
                     /\ gameRooms'[c].pd[q].spinner.size = smaller.spinner.size
    /\ HasModular /\ ClientPhase = "playing" /\ calls'.update > calls.update =>
          \A a, b \in DOMAIN modularEngine.components :
              LET larger == modularEngine.components[a]
                  smaller == modularEngine.components[b]
              IN /\ a # b /\ IsSpinner(larger) /\ IsSpinner(smaller)
                 /\ larger.isAlive /\ smaller.isAlive
                 /\ larger.size >= smaller.size
                 /\ circleCollision(larger.position, larger.radius,
                                    smaller.position, smaller.radius)
                 => IF 10 * larger.size >= 13 * smaller.size
                    THEN /\ modularEngine'.components[a].isAlive
                         /\ ~modularEngine'.components[b].isAlive
                         /\ modularEngine'.components[a].size
                                = larger.size + smaller.size \div 2
                         /\ modularEngine'.components[b].size = smaller.size
                    ELSE /\ modularEngine'.components[a].isAlive
                         /\ modularEngine'.components[b].isAlive
                         /\ modularEngine'.components[a].size = larger.size
                         /\ modularEngine'.components[b].size = smaller.size

CurrentPlayer == modularEngine.components[modularEngine.currentPlayerEntity]
Predicted(m) ==
    [position |-> m.components[m.currentPlayerEntity].position,
     velocity |-> m.components[m.currentPlayerEntity].velocity,
     inputBuffer |-> BufferOf(m.inputBuffer, m.currentPlayerEntity)]
LastServerUpdate(m) ==
    LET updates == BufferOf(m.serverUpdates, m.currentPlayerEntity)
    IN IF Len(updates) = 0 THEN [sequenceNumber |-> 0]
       ELSE [sequenceNumber |-> updates[Len(updates)].sequenceNumber,
             position |-> updates[Len(updates)].position,
             velocity |-> updates[Len(updates)].velocity]
ServerUpdateStep ==
    /\ calls'.server > calls.server
    /\ HasModular
    /\ modularEngine.currentPlayerEntity \in DOMAIN modularEngine.components

\* C7: delivering to processServerUpdate the update (sequence, position, velocity) that
\* was the last one delivered before changes neither the position nor the velocity nor
\* the buffered inputs of the entity
C7_SecondDelivery ==
    ServerUpdateStep /\ LastServerUpdate(modularEngine') = LastServerUpdate(modularEngine)
        => Predicted(modularEngine') = Predicted(modularEngine)

C7_Idempotent == [][C7_SecondDelivery]_vars

\* C8: processServerUpdate never lowers lastAcknowledged: an update whose sequence is
\* not above the highest acknowledged one is discarded
C8_Delivery ==
    ServerUpdateStep =>
        modularEngine'.components[modularEngine.currentPlayerEntity].lastAcknowledged
            >= CurrentPlayer.lastAcknowledged

C8_AckMonotone == [][C8_Delivery]_vars

\* the phase changes the game is meant to make
PhaseChanges ==
    {<<"lobby", "playing">>, <<"menu", "playing">>, <<"playing", "game_over">>,
     <<"game_over", "lobby">>, <<"game_over", "menu">>, <<"game_over", "playing">>}

\* C10: every step of a room or of a client engine leaves the phase or changes it along
\* lobby/menu -> playing, playing -> over, over -> lobby/menu, over -> playing; never
\* from playing to lobby/menu, never from lobby/menu to over
C10_PhaseStep ==
    /\ \A c \in Codes :
          gameRooms[c] # NoRoom /\ gameRooms'[c] # NoRoom
              /\ gameRooms'[c].phase # gameRooms[c].phase
          => <<gameRooms[c].phase, gameRooms'[c].phase>> \in PhaseChanges
    /\ ClientPhase # "null" /\ ClientPhase' # ClientPhase
          => <<ClientPhase, ClientPhase'>> \in PhaseChanges

C10_PhaseOrder == [][C10_PhaseStep]_vars

\* C11: within one game no step lowers the size of an actor: sizes fall only when a
\* game is started (or the client is reset to the menu)
C11_SizeStep ==
    /\ \A c \in Codes :
          /\ gameRooms[c] # NoRoom /\ gameRooms'[c] # NoRoom
          /\ ~(gameRooms[c].phase # "playing" /\ gameRooms'[c].phase = "playing")
          => \A id \in DOMAIN gameRooms[c].pd \cap DOMAIN gameRooms'[c].pd :
                 gameRooms'[c].pd[id].spinner.size >= gameRooms[c].pd[id].spinner.size
    /\ HasModular /\ calls'.startGame = calls.startGame
                  /\ calls'.resetToMenu = calls.resetToMenu
          => \A id \in DOMAIN modularEngine.components \cap DOMAIN modularEngine'.components :
                 IsSpinner(modularEngine.components[id])
                     => modularEngine'.components[id].size >= modularEngine.components[id].size
    /\ HasLegacy /\ calls'.startGame = calls.startGame
                 /\ calls'.resetToMenu = calls.resetToMenu
          => legacyEngine'.spinner.size >= legacyEngine.spinner.size

C11_SizeMonotone == [][C11_SizeStep]_vars

\* C12: the score of every player equals the current size of the player's actor, in
\* the rooms of the server, in the world of the modular engine and in the legacy engine
C12_ScoreMirrorsSize ==
    /\ \A c \in Codes :
          gameRooms[c] # NoRoom =>
              \A id \in SeqToSet(gameRooms[c].players) :
                  gameRooms[c].pd[id].score = gameRooms[c].pd[id].spinner.size
    /\ HasModular =>
          \A id \in DOMAIN modularEngine.components :
              IsSpinner(modularEngine.components[id])
                  => modularEngine.components[id].score = modularEngine.components[id].size
    /\ HasLegacy => legacyEngine.score = legacyEngine.spinner.size

\* the dots of room r that checkDotCollisions takes as touched by a spinner of size
\* `size` at the place of player id
TouchedDots(r, id, size) ==
    {i \in 1..Len(r.dots) :
        circleCollision(r.pd[id].spinner.position, size, r.dots[i].position, r.dots[i].size)}

\* C13: a tick in which an alive player at rest touches one dot, and no other player
\* touches a dot or a player, removes that dot, adds exactly its value to the player's
\* size, sets the score to the new size and appends exactly one new dot, so that the
\* room has DOT_COUNT dots again
C13_TickStep ==
    \A c \in rooms : \A id \in SeqToSet(gameRooms[c].gsPlayers) : \A i \in 1..Len(gameRooms[c].dots) :
        LET r == gameRooms[c]
            player == r.pd[id]
            others == SeqToSet(r.gsPlayers) \ {id}
        IN /\ gameRooms'[c].ticks > r.ticks
           /\ Len(r.dots) = DOT_COUNT
           /\ \A q \in SeqToSet(r.gsPlayers) :
                  /\ r.pd[q].isAlive
                  /\ r.pd[q].spinner.velocity = createVector2(0, 0)
                  /\ r.pd[q].spinner.targetDirection = createVector2(0, 0)
           /\ TouchedDots(r, id, player.spinner.size + DOT_GROWTH_MAX) = {i}
           /\ \A q \in others :
                  /\ TouchedDots(r, q, r.pd[q].spinner.size) = {}
                  /\ ~circleCollision(player.spinner.position, player.spinner.size + DOT_GROWTH_MAX,
                                      r.pd[q].spinner.position, r.pd[q].spinner.size)
           => /\ gameRooms'[c].pd[id].spinner.size = player.spinner.size + r.dots[i].value
              /\ gameRooms'[c].pd[id].score = player.spinner.size + r.dots[i].value
              /\ Len(gameRooms'[c].dots) = DOT_COUNT
              /\ SubSeq(gameRooms'[c].dots, 1, DOT_COUNT - 1) = RemoveAt(r.dots, i)

C13_DotPickup == [][C13_TickStep]_vars

\* a player of size 25 has picked up a dot of value 3: size and score are 28
C13_PickedUp ==
    \E c \in rooms : \E id \in SeqToSet(gameRooms[c].gsPlayers) :
        /\ gameRooms[c].ticks = 1
        /\ gameRooms[c].pd[id].spinner.size = 28 * U
        /\ gameRooms[c].pd[id].score = 28 * U
        /\ Len(gameRooms[c].dots) = DOT_COUNT

\* C14: when the host's START_GAME is handled in a room of at least two players that is
\* not playing (first start or restart after a game is over), GAME_STARTED goes to the
\* room before any GAME_STATE, the room has DOT_COUNT dots, its phase is 'playing' and
\* every player of the room is alive, of the initial size and at rest
C14_StartStep ==
    \A s \in Sockets :
        LET c == playerRooms[s]
        IN /\ START_GAME(s)
           /\ c \in rooms
           /\ gameRooms[c].host = s
           /\ Len(gameRooms[c].players) >= 2
           /\ ~gameRooms[c].isPlaying
           => /\ \E i \in 1..Len(out') :
                    /\ out'[i].type = "GAME_STARTED" /\ out'[i].to = "room" /\ out'[i].room = c
                    /\ \A j \in 1..Len(out') : out'[j].type = "GAME_STATE" => j > i
              /\ Len(gameRooms'[c].dots) = DOT_COUNT
              /\ gameRooms'[c].phase = "playing"
              /\ \A id \in SeqToSet(gameRooms'[c].players) :
                    /\ gameRooms'[c].pd[id].isAlive
                    /\ gameRooms'[c].pd[id].spinner.size = SPINNER_INITIAL_SIZE
                    /\ gameRooms'[c].pd[id].spinner.velocity = createVector2(0, 0)

C14_GameStart == [][C14_StartStep]_vars

\* a game was started again in a room that has run ticks of an earlier game
C14_Restarted ==
    \E c \in rooms :
        /\ Len(out) > 0 /\ out[1].type = "GAME_STARTED" /\ out[1].room = c
        /\ gameRooms[c].ticks > 0
        /\ gameRooms[c].phase = "playing"
        /\ Len(gameRooms[c].players) >= 2

\* C15: a tick runs only in a room that is playing, and a tick that ends with at most one
\* player alive ends with the phase 'game_over', isPlaying FALSE, the tick loop stopped
\* and exactly one GAME_OVER sent to the room, naming the sole alive player, or nobody
C15_TickStep ==
    \A c \in Codes :
        gameRooms[c] # NoRoom /\ gameRooms'[c] # NoRoom /\ gameRooms'[c].ticks > gameRooms[c].ticks
        => LET alivePlayers == AliveOf(gameRooms'[c])
               over == {i \in 1..Len(out') : out'[i].type = "GAME_OVER"}
           IN /\ gameRooms[c].isPlaying
              /\ Len(alivePlayers) <= 1 =>
                    /\ gameRooms'[c].phase = "game_over"
                    /\ ~gameRooms'[c].isPlaying
                    /\ ~gameRooms'[c].gameLoopInterval
                    /\ gameRooms'[c].timers = 0
                    /\ Cardinality(over) = 1
                    /\ \A i \in over :
                          /\ out'[i].to = "room" /\ out'[i].room = c
                          /\ out'[i].player = IF Len(alivePlayers) = 1 THEN alivePlayers[1] ELSE 0

C15_Termination == [][C15_TickStep]_vars

\* a tick has ended a game and named the survivor
C15_GameOver ==
    \E c \in Codes :
        /\ gameRooms[c] # NoRoom
        /\ gameRooms[c].phase = "game_over"
        /\ gameRooms[c].timers = 0
        /\ \E i \in 1..Len(out) : out[i].type = "GAME_OVER" /\ out[i].player # 0

\* C16: a tick that ends with the room playing sends exactly one GAME_STATE, to the room,
\* carrying the players, dots and elapsed time as the tick's simulation left them;
\* a tick that ends with the room not playing sends no GAME_STATE
C16_TickStep ==
    \A c \in Codes :
        gameRooms[c] # NoRoom /\ gameRooms'[c] # NoRoom /\ gameRooms'[c].ticks > gameRooms[c].ticks
        => LET sent == {i \in 1..Len(out') : out'[i].type = "GAME_STATE"}
           IN IF gameRooms'[c].isPlaying
              THEN /\ Cardinality(sent) = 1
                   /\ \A i \in sent : /\ out'[i].to = "room" /\ out'[i].room = c
                                      /\ out'[i].state = Snapshot(gameRooms'[c])
                                      /\ out'[i].state # Snapshot(gameRooms[c])
              ELSE sent = {}

C16_SnapshotAfterTick == [][C16_TickStep]_vars

\* a tick has sent the snapshot of a room in play
C16_Broadcast ==
    \E c \in Codes :
        /\ gameRooms[c] # NoRoom /\ gameRooms[c].isPlaying /\ gameRooms[c].ticks > 0
        /\ Len(out) = 1 /\ out[1].type = "GAME_STATE"
        /\ out[1].state.timeElapsed = gameRooms[c].timeElapsed
        /\ out[1].state.timeElapsed > 0
        /\ Len(out[1].state.players) >= 2 /\ Len(out[1].state.dots) = DOT_COUNT

\* C17: a tick leaves every target direction as it was when the tick began, and every
\* player alive at the start of the tick, whose integrated spinner touches no wall, ends
\* the tick with the velocity, position and rotation that the integration gives from the
\* target direction the player had when the tick began
C17_TickStep ==
    \A c \in Codes :
        gameRooms[c] # NoRoom /\ gameRooms'[c] # NoRoom /\ gameRooms'[c].ticks > gameRooms[c].ticks
        => LET dt == gameRooms'[c].timeElapsed - gameRooms[c].timeElapsed
           IN \A id \in SeqToSet(gameRooms[c].gsPlayers) :
                  LET before == gameRooms[c].pd[id]
                      after == gameRooms'[c].pd[id]
                      integrated == [updatePlayerSpinner(before.spinner, dt)
                                       EXCEPT !.size = after.spinner.size,
                                              !.maxSpeed = after.spinner.maxSpeed]
                  IN /\ after.spinner.targetDirection = before.spinner.targetDirection
                     /\ before.isAlive /\ checkBoundaryCollisions(integrated) = integrated
                        => after.spinner = integrated

RefusedJoin(s, c) ==
    /\ JOIN_ROOM(s, c)
    /\ \/ c \notin rooms
       \/ Len(gameRooms[c].players) >= MAX_PLAYERS_PER_ROOM
       \/ gameRooms[c].isPlaying

\* START_GAME that the server refuses: no room, not the host, fewer than two players,
\* or already playing
RefusedStart(s) ==
    /\ START_GAME(s)
    /\ \/ playerRooms[s] = 0
       \/ /\ playerRooms[s] \in rooms
          /\ \/ gameRooms[playerRooms[s]].host # s
             \/ Len(gameRooms[playerRooms[s]].players) < 2
             \/ gameRooms[playerRooms[s]].isPlaying

\* C18: a refused JOIN_ROOM or START_GAME sends one ERROR, to the requester only, and
\* leaves every room (players, host, phase, dots, tick loop) and the registry unchanged
C18_RefusalStep ==
    \A s \in Sockets :
        (RefusedStart(s) \/ \E c \in Codes : RefusedJoin(s, c))
        => /\ Len(out') = 1
           /\ out'[1].type = "ERROR" /\ out'[1].to = "socket" /\ out'[1].socket = s
           /\ out'[1].error # ""
           /\ UNCHANGED <<gameRooms, rooms, playerRooms>>

C18_Rejections == [][C18_RefusalStep]_vars

\* a join has been refused by a room whose game is running
C18_Refused ==
    /\ Len(out) = 1 /\ out[1].type = "ERROR" /\ out[1].error = "Game already in progress"
    /\ \E c \in rooms : gameRooms[c].isPlaying /\ gameRooms[c].timers = 1
                         /\ out[1].socket \notin SeqToSet(gameRooms[c].players)

\* C19: after the disconnect of a player of a registered room has been handled, the room
\* is as removePlayer left it, a second removePlayer of that player returns false and
\* changes nothing of the room (players, host), and the connection has no room code
\* left, so that a second disconnect would touch neither a room nor the registry
C19_LeaveStep ==
    \A s \in Sockets :
        disconnect(s) /\ playerRooms[s] \in rooms
        => LET c == playerRooms[s]
               first == removePlayer(gameRooms[c], s)
               second == removePlayer(first.room, s)
           IN /\ gameRooms'[c] = first.room
              /\ ~second.removed
              /\ second.room = first.room
              /\ s \notin SeqToSet(gameRooms'[c].players)
              /\ gameRooms'[c].host # s \/ Len(gameRooms'[c].players) = 0
              /\ playerRooms'[s] = 0

C19_LeaveIdempotent == [][C19_LeaveStep]_vars

\* the host of a room has left, and the room went on with another host
C19_HostLeft ==
    \E c \in rooms :
        /\ Len(out) = 2 /\ out[1].type = "PLAYER_LEFT" /\ out[1].room = c
        /\ sockets[out[1].player] = "closed"
        /\ out[1].player \notin SeqToSet(gameRooms[c].players)
        /\ out[1].player < gameRooms[c].host

\* every room of the registry has at least one entry in its players Map
C20_NoEmptyRoom == \A c \in rooms : Len(gameRooms[c].players) >= 1

\* C20: once the disconnect of the last player of a room has been handled, the room is
\* no longer in the registry, and after every handled event every room in the registry
\* has at least one player
C20_LastLeaveStep ==
    /\ C20_NoEmptyRoom'
    /\ \A s \in Sockets :
          disconnect(s)
          => \A c \in rooms : SeqToSet(gameRooms[c].players) = {s} => c \notin rooms'

C20_EmptyRoomsCollected == [][C20_LastLeaveStep]_vars

(***************************************************************************)
(* Properties of the LagCompensationManager                                *)
(***************************************************************************)
\* the stored snapshots closest in time to t
NearestSnapshots(t) ==
    LET h == lagCompensation.worldHistory
    IN {i \in 1..Len(h) : \A j \in 1..Len(h) : Abs(h[i].timestamp - t) <= Abs(h[j].timestamp - t)}

\* the stored snapshots within the retention window of t
SnapshotsInWindow(t) ==
    LET h == lagCompensation.worldHistory
    IN {i \in 1..Len(h) : Abs(h[i].timestamp - t) <= maxHistoryDuration}

\* both players are in the snapshot, alive, and no farther apart than their radii
HitIn(snapshot, attackerPlayerId, targetPlayerId) ==
    \E i, j \in 1..Len(snapshot.players) :
        LET a == snapshot.players[i]
            t == snapshot.players[j]
        IN /\ a.playerId = attackerPlayerId /\ t.playerId = targetPlayerId
           /\ a.isAlive /\ t.isAlive
           /\ 4 * ((a.position.x - t.position.x) * (a.position.x - t.position.x)
                   + (a.position.y - t.position.y) * (a.position.y - t.position.y))
              <= (a.size + t.size) * (a.size + t.size)

\* C21: validateHit returns isValid = TRUE exactly when a stored snapshot lies within the
\* retention window of rewindTime = clientTimestamp - estimatedLatency and the snapshot
\* nearest to rewindTime holds attacker and target, both alive, at a distance of at most
\* the sum of their radii (when two snapshots are equally near, one of them decides)
C21_ValidateHit ==
    returned.call = "validateHit"
    => LET rewindTime == returned.clientTimestamp - returned.estimatedLatency
           h == lagCompensation.worldHistory
           hits == {i \in NearestSnapshots(rewindTime) :
                       /\ i \in SnapshotsInWindow(rewindTime)
                       /\ HitIn(h[i], returned.attackerPlayerId, returned.targetPlayerId)}
       IN /\ returned.result.rewindTime = rewindTime
          /\ returned.result.isValid => hits # {}
          /\ SnapshotsInWindow(rewindTime) # {} /\ hits = NearestSnapshots(rewindTime)
             => returned.result.isValid

\* a hit of player 1 on player 2 has been accepted from the nearer of two snapshots
C21_HitAccepted ==
    /\ returned.call = "validateHit"
    /\ returned.result.isValid
    /\ returned.attackerPlayerId # returned.targetPlayerId
    /\ Len(lagCompensation.worldHistory) >= 2
    /\ Cardinality(NearestSnapshots(returned.result.rewindTime)) = 1

\* C22: when no stored snapshot lies within the retention window of the rewind time, the
\* history being empty included, validateHit returns isValid = FALSE with neither an
\* attacker state nor a target state, and leaves worldHistory and inputBuffer as they were
C22_StaleStep ==
    /\ returned' # returned
    /\ returned'.call = "validateHit"
    /\ SnapshotsInWindow(returned'.clientTimestamp - returned'.estimatedLatency) = {}
    => /\ returned'.result.isValid = FALSE
       /\ returned'.result.attackerState = Null
       /\ returned'.result.targetState = Null
       /\ returned'.result.rewindTime = returned'.clientTimestamp - returned'.estimatedLatency
       /\ lagCompensation' = lagCompensation

C22_StaleIsInvalid == [][C22_StaleStep]_vars

\* a hit has been refused because every stored snapshot is too far from the rewind time
C22_Stale ==
    /\ returned.call = "validateHit"
    /\ Len(lagCompensation.worldHistory) > 0
    /\ Len(lagCompensation.inputBuffer) > 0
    /\ SnapshotsInWindow(returned.result.rewindTime) = {}
    /\ ~returned.result.isValid
    /\ returned.result.attackerState = Null

\* the buffer after a push onto `before` under the limit: the new entry is last, and the
\* oldest entry alone has gone if the limit would have been exceeded
PushedWithin(before, after, limit) ==
    /\ Len(after) >= 1 /\ Len(after) <= limit
    /\ IF Len(before) >= limit
       THEN SubSeq(after, 1, Len(after) - 1) = Tail(before)
       ELSE SubSeq(after, 1, Len(after) - 1) = before

\* C23: the input buffer of an entity never holds more than 100 frames, the server
\* updates of an entity never more than 50, the input buffer of the lag compensation
\* never more than 1000 events; a push onto a full buffer drops the oldest entry alone
\* and keeps the new one
C23_BufferStep ==
    /\ Len(lagCompensation'.inputBuffer) <= INPUT_BUFFER_LENGTH
    /\ HasModular' =>
          /\ \A e \in DOMAIN modularEngine'.inputBuffer :
                Len(modularEngine'.inputBuffer[e]) <= INPUT_FRAMES_LENGTH
          /\ \A e \in DOMAIN modularEngine'.serverUpdates :
                Len(modularEngine'.serverUpdates[e]) <= SERVER_UPDATES_LENGTH
    /\ returned'.call = "recordInput" =>
          /\ PushedWithin(lagCompensation.inputBuffer, lagCompensation'.inputBuffer, INPUT_BUFFER_LENGTH)
          /\ lagCompensation'.inputBuffer[Len(lagCompensation'.inputBuffer)].timestamp = serverNow'
    /\ HasModular /\ calls'.input > calls.input =>
          LET e == modularEngine.currentPlayerEntity
              after == BufferOf(modularEngine'.inputBuffer, e)
          IN \/ modularEngine' = modularEngine        \* no game is being played
             \/ /\ PushedWithin(BufferOf(modularEngine.inputBuffer, e), after, INPUT_FRAMES_LENGTH)
                /\ after[Len(after)].sequenceNumber = modularEngine'.components[e].sequenceNumber
                /\ modularEngine'.components[e].sequenceNumber
                     = modularEngine.components[e].sequenceNumber + 1
    /\ HasModular /\ calls'.server > calls.server =>
          LET e == modularEngine.currentPlayerEntity
              after == BufferOf(modularEngine'.serverUpdates, e)
          IN /\ PushedWithin(BufferOf(modularEngine.serverUpdates, e), after, SERVER_UPDATES_LENGTH)
             /\ after[Len(after)].sequenceNumber = modularEngine'.components[e].lastAcknowledged

C23_BoundedBuffers == [][C23_BufferStep]_vars

\* the lag compensation has dropped its oldest event to keep 1000
C23_OldestEvicted ==
    /\ returned.call = "recordInput"
    /\ Len(lagCompensation.inputBuffer) = INPUT_BUFFER_LENGTH
    /\ lagCompensation.inputBuffer[1].timestamp = 2
    /\ lagCompensation.inputBuffer[INPUT_BUFFER_LENGTH].timestamp = serverNow

\* C24: update called while the phase is not 'playing' leaves the whole state of the
\* engine as it was - phase, spinner, dots, score and timeElapsed of the GameEngine,
\* state manager, world and timeElapsed of the ModularGameEngine - and draws no random number
C24_UpdateStep ==
    calls'.update > calls.update /\ ClientPhase # "playing"
    => /\ legacyEngine' = legacyEngine
       /\ modularEngine' = modularEngine
       /\ crng' = crng

C24_IdleUpdate == [][C24_UpdateStep]_vars

\* update has been called on an engine that has never left the menu
C24_UpdatedInMenu ==
    /\ currentEngineType # "none"
    /\ calls.update > 0
    /\ calls.startGame = 0
    /\ ClientPhase = "menu"

\* C25: when the host leaves a room in which other players remain, room.host becomes the
\* earliest-joined of them and that player's isHost becomes TRUE; when another player
\* leaves, room.host stays; the other players keep their isHost flags
C25_LeaveStep ==
    \A s \in Sockets :
        disconnect(s) /\ playerRooms[s] \in rooms /\ s \in SeqToSet(gameRooms[playerRooms[s]].players)
        => LET before == gameRooms[playerRooms[s]]
               after == gameRooms'[playerRooms[s]]
               remaining == SelectSeq(before.players, LAMBDA id : id # s)
           IN /\ after.players = remaining
              /\ before.host = s /\ Len(remaining) > 0
                 => /\ after.host = remaining[1]
                    /\ after.pd[remaining[1]].isHost
                    /\ \A i \in 2..Len(remaining) :
                          after.pd[remaining[i]].isHost = before.pd[remaining[i]].isHost
              /\ before.host # s
                 => /\ after.host = before.host
                    /\ \A i \in 1..Len(remaining) :
                          after.pd[remaining[i]].isHost = before.pd[remaining[i]].isHost

C25_HostSuccession == [][C25_LeaveStep]_vars

\* the creator of a room has left it to three players, the earliest of whom is the host
C25_Succeeded ==
    \E c \in rooms :
        /\ Len(out) = 2 /\ out[1].type = "PLAYER_LEFT" /\ out[1].room = c /\ out[1].player = 1
        /\ Len(gameRooms[c].players) = 3
        /\ gameRooms[c].host = gameRooms[c].players[1]
        /\ gameRooms[c].pd[gameRooms[c].host].isHost
        /\ ~gameRooms[c].pd[gameRooms[c].players[3]].isHost

(***************************************************************************)
(* GameEngineAdapter.switchEngine, among the calls of the unified          *)
(* interface                                                               *)
(***************************************************************************)
\* switchEngine(engineType): nothing when the type is the current one, else the type is
\* set and initializeEngine constructs the engine of that type; the other field is kept
Adapter_switchEngine(engineType) ==
    /\ currentEngineType # "none"
    /\ currentEngineType # engineType
    /\ currentEngineType' = engineType
    /\ IF engineType = "legacy"
       THEN legacyEngine' = createInitialState /\ UNCHANGED modularEngine
       ELSE modularEngine' = NewModularGameEngine /\ UNCHANGED legacyEngine
    /\ UNCHANGED <<serverVars, lagVars, gridVars, crng, now, calls>>

MaxSwitchUpdates == 2

NextSwitch ==
    \/ \E engineType \in {"legacy", "modular"} : Adapter_switchEngine(engineType)
    \/ Adapter_startGame
    \/ \E dt \in ClientDeltaMs : calls.update < MaxSwitchUpdates /\ Adapter_update(dt)
    \/ \E direction \in ClientDirections : Adapter_setSpinnerDirection(direction)
    \/ Adapter_stopSpinner
    \/ Adapter_resetToMenu

SpecSwitch == InitClient /\ [][NextSwitch]_vars

(***************************************************************************)
(* The calls made to the GameStateManager of the modular engine            *)
(* (getStateManager): transitionTo any phase, forceTransition to the menu  *)
(* as resetToMenu does.                                                    *)
(***************************************************************************)
Phases == {"menu", "playing", "game_over"}
MaxHistory == 11

Manager_transitionTo(newPhase) ==
    /\ HasModular
    /\ modularEngine' = [modularEngine EXCEPT !.stateManager = transitionTo(@, newPhase).manager]
    /\ UNCHANGED <<serverVars, lagVars, gridVars, currentEngineType, legacyEngine, crng, now, calls>>

Manager_forceTransition(newPhase) ==
    /\ HasModular
    /\ Len(modularEngine.stateManager.transitionHistory) < MaxHistory
    /\ modularEngine' = [modularEngine EXCEPT !.stateManager = forceTransition(@, newPhase)]
    /\ UNCHANGED <<serverVars, lagVars, gridVars, currentEngineType, legacyEngine, crng, now, calls>>

NextHistory ==
    \/ \E newPhase \in Phases : Manager_transitionTo(newPhase)
    \/ Manager_forceTransition("menu")

InitHistory == InitClient /\ currentEngineType = "modular"

SpecHistory == InitHistory /\ [][NextHistory]_vars

(***************************************************************************)
(* The estimate of the latency: one player sends inputs a millisecond      *)
(* apart, each 5 ms or 600 ms old when it arrives, one more than the       *)
(* sample holds; the latency of both players is estimated.                 *)
(***************************************************************************)
EstimateLatencies == {5, 600}

Lag_estimatePlayerLatency(playerId) ==
    /\ returned' = [call |-> "estimatePlayerLatency", playerId |-> playerId,
                    result |-> estimatePlayerLatency(lagCompensation, playerId)]
    /\ UNCHANGED <<lagCompensation, serverNow, serverVars, clientVars, gridVars>>

NextEstimate ==
    \/ \E latency \in EstimateLatencies :
          /\ Len(lagCompensation.inputBuffer) < SAMPLE_SIZE + 1
          /\ Lag_recordInput(1, latency, 1)
    \/ \E playerId \in LagPlayers : Lag_estimatePlayerLatency(playerId)

SpecEstimate == InitLag /\ [][NextEstimate]_vars

(***************************************************************************)
(* SpatialGrid, the broad phase of the CollisionSystem: the cells are      *)
(* squares of cellSize, named by the floors of their coordinates.  The     *)
(* CollisionSystem clears the grid, adds every entity with its collision   *)
(* radius and probes it around each entity with twice that radius.         *)
(***************************************************************************)
cellSize == 150 * U

\* the cells gridX, gridY of the two loops over the bounding box of a circle
GridCells(x, y, radius) ==
    {<<gridX, gridY>> : gridX \in ((x - radius) \div cellSize)..((x + radius) \div cellSize),
                        gridY \in ((y - radius) \div cellSize)..((y + radius) \div cellSize)}

\* addEntity that puts the entity into the cell of its centre only
SpatialGrid_addEntity_centre(grid, entityId, x, y, radius) ==
    LET cells == {<<x \div cellSize, y \div cellSize>>}
    IN [key \in DOMAIN grid \cup cells |->
           IF key \in cells
           THEN (IF key \in DOMAIN grid THEN grid[key] ELSE {}) \cup {entityId}
           ELSE grid[key]]

SpatialGrid_addEntity(grid, entityId, x, y, radius) ==
    LET cells == GridCells(x, y, radius)
    IN [key \in DOMAIN grid \cup cells |->
           IF key \in cells
           THEN (IF key \in DOMAIN grid THEN grid[key] ELSE {}) \cup {entityId}
           ELSE grid[key]]

getNearbyEntities(grid, x, y, radius) ==
    UNION {grid[key] : key \in GridCells(x, y, radius) \cap DOMAIN grid}

\* the circles the grid is filled with: on and around the borders of the cells, on
\* both sides of the origin, smaller and larger than a cell
MaxGridEntities == 2
GridXs == {-160 * U, -1, 0, 150 * U, 170 * U}
GridYs == {-1, 150 * U}
GridRadii == {15 * (U \div 2), 40 * U, 170 * U}

Grid_clear ==
    /\ inserted # <<>>
    /\ spatialGrid' = <<>>
    /\ inserted' = <<>>
    /\ returned' = [call |-> "clear"]
    /\ UNCHANGED <<serverVars, clientVars, lagCompensation, serverNow>>

\* the entities are added in the order of their ids
Grid_addEntity(x, y, radius) ==
    /\ Len(inserted) < MaxGridEntities
    /\ spatialGrid' = SpatialGrid_addEntity(spatialGrid, Len(inserted) + 1, x, y, radius)
    /\ inserted' = Append(inserted, [x |-> x, y |-> y, radius |-> radius])
    /\ returned' = [call |-> "addEntity"]
    /\ UNCHANGED <<serverVars, clientVars, lagCompensation, serverNow>>

\* the probe of checkEntityCollisions(entityId)
Grid_getNearbyEntities(entityId) ==
    /\ entityId \in 1..Len(inserted)
    /\ returned' = [call |-> "getNearbyEntities", entityId |-> entityId,
                    nearby |-> getNearbyEntities(spatialGrid, inserted[entityId].x,
                                                 inserted[entityId].y,
                                                 inserted[entityId].radius * 2)]
    /\ UNCHANGED <<serverVars, clientVars, lagCompensation, serverNow, gridVars>>

InitGrid ==
    /\ gameRooms = [c \in Codes |-> NoRoom]
    /\ rooms = {}
    /\ playerRooms = [s \in Sockets |-> 0]
    /\ sockets = [s \in Sockets |-> "closed"]
    /\ rng = 0
    /\ out = <<>>
    /\ joins = 0
    /\ NoClient /\ NoLag /\ NoGrid

NextGrid ==
    \/ Grid_clear
    \/ \E x \in GridXs : \E y \in GridYs : \E radius \in GridRadii : Grid_addEntity(x, y, radius)
    \/ \E entityId \in 1..MaxGridEntities : Grid_getNearbyEntities(entityId)

SpecGrid == InitGrid /\ [][NextGrid]_vars

(***************************************************************************)
(* A game that goes on after an elimination: three actors, two of them     *)
(* overlapping at rest and the third away from them, with the inputs of    *)
(* the players and the ticks.                                              *)
(***************************************************************************)
EliminatedPlayers == 3
EliminatedSizes == {25 * U, 40 * U}
Apart == createVector2(Centre.x, Centre.y \div 4)

\* the room of three players after START_GAME, players 1 and 2 grown and overlapping
EliminatedRoom(seed, size1, size2, offset) ==
    LET lobby == Entered(EliminatedPlayers, seed)
        result == startGame(lobby.room, 1, lobby.rng)
        grown(p, size, position) ==
            [p EXCEPT !.score = size,
                      !.spinner.size = size,
                      !.spinner.maxSpeed = MaxSpeedFor(size),
                      !.spinner.position = position]
    IN [room |-> [result.room EXCEPT
                    !.pd[1] = grown(@, size1, Centre),
                    !.pd[2] = grown(@, size2, createVector2(Centre.x + offset, Centre.y)),
                    !.pd[3] = grown(@, @.spinner.size, Apart)],
        rng |-> Advance(lobby.rng, result.draws)]

\* the modular engine after startMultiplayerGame with three players, grown likewise
EliminatedEngine(seed, size1, size2, offset) ==
    LET players == <<[id |-> "local_player", position |-> Centre, isHost |-> TRUE],
                     [id |-> "remote_player",
                      position |-> createVector2(Centre.x + offset, Centre.y),
                      isHost |-> FALSE],
                     [id |-> "other_player", position |-> Apart, isHost |-> FALSE]>>
        ctx == ModularGameEngine_startMultiplayerGame(
                   [m |-> NewModularGameEngine, rng |-> seed], players)
        grown(entity, size) == [entity EXCEPT !.size = size, !.score = size]
    IN [ctx EXCEPT !.m.components[1] = grown(@, size1),
                   !.m.components[2] = grown(@, size2)]

InitEliminated ==
    \E seed \in Seeds : \E size1, size2 \in EliminatedSizes : \E offset \in CollideOffsets :
        \/ LET game == EliminatedRoom(seed, size1, size2, offset)
           IN /\ gameRooms = [c \in Codes |-> IF c = 1 THEN game.room ELSE NoRoom]
              /\ rooms = {1}
              /\ playerRooms = [s \in Sockets |-> IF s <= EliminatedPlayers THEN 1 ELSE 0]
              /\ sockets = [s \in Sockets |-> "open"]
              /\ rng = game.rng
              /\ out = <<>>
              /\ joins = EliminatedPlayers - 1
              /\ NoClient /\ NoLag /\ NoGrid
        \/ LET ctx == EliminatedEngine(seed, size1, size2, offset)
           IN /\ gameRooms = [c \in Codes |-> NoRoom]
              /\ rooms = {}
              /\ playerRooms = [s \in Sockets |-> 0]
              /\ sockets = [s \in Sockets |-> "closed"]
              /\ rng = 0
              /\ out = <<>>
              /\ joins = 0
              /\ currentEngineType = "modular"
              /\ legacyEngine = NoEngine
              /\ modularEngine = ctx.m
              /\ crng = ctx.rng
              /\ now = 0
              /\ calls = NoCalls /\ NoLag /\ NoGrid

NextEliminated ==
    \/ \E s \in 1..GamePlayers : \E d \in ClientDirections : PLAYER_INPUT(s, d)
    \/ \E c \in Codes : \E dt \in DeltaMs : GameLoop(c, dt)
    \/ \E dt \in ClientDeltaMs : Adapter_update(dt)
    \/ \E d \in ClientDirections : Adapter_setSpinnerDirection(d)

SpecEliminated == InitEliminated /\ [][NextEliminated]_vars

(***************************************************************************)
(* Properties of eliminated actors                                         *)
(***************************************************************************)
\* the players of room c that are eliminated before and after the step
DeadPlayers(c) ==
    IF gameRooms[c] = NoRoom \/ gameRooms'[c] = NoRoom THEN {}
    ELSE {id \in SeqToSet(gameRooms[c].players) \cap SeqToSet(gameRooms'[c].players) :
            ~gameRooms[c].pd[id].isAlive /\ ~gameRooms'[c].pd[id].isAlive}

\* the spinners of the entity world that are eliminated before and after the step
DeadSpinners ==
    IF ~HasModular \/ "stateManager" \notin DOMAIN modularEngine' THEN {}
    ELSE {id \in DOMAIN modularEngine.components \cap DOMAIN modularEngine'.components :
            /\ IsSpinner(modularEngine.components[id]) /\ IsSpinner(modularEngine'.components[id])
            /\ ~modularEngine.components[id].isAlive /\ ~modularEngine'.components[id].isAlive}

\* C26: an actor that is eliminated and is not revived by the step keeps its position,
\* its velocity and its size through the step (it does not move, eats no dot, takes part
\* in no collision and its input is ignored), in a server room and in the entity world
C26_DeadStep ==
    /\ \A c \in Codes : \A id \in DeadPlayers(c) :
          gameRooms'[c].pd[id].spinner = gameRooms[c].pd[id].spinner
    /\ \A id \in DeadSpinners :
          /\ modularEngine'.components[id].position = modularEngine.components[id].position
          /\ modularEngine'.components[id].velocity = modularEngine.components[id].velocity
          /\ modularEngine'.components[id].size = modularEngine.components[id].size

C26_DeadActorsFrozen == [][C26_DeadStep]_vars

\* the same for the server room alone
C26_DeadPlayerStep ==
    \A c \in Codes : \A id \in DeadPlayers(c) :
        gameRooms'[c].pd[id].spinner = gameRooms[c].pd[id].spinner

C26_DeadPlayersFrozen == [][C26_DeadPlayerStep]_vars

(***************************************************************************)
(* Properties of the collision events                                      *)
(***************************************************************************)
\* the events that are the first of their unordered pair of entities
ResolvedOnce(collisionEvents) ==
    LET pair(k) == {collisionEvents[k].entityA, collisionEvents[k].entityB}
        first == {k \in 1..Len(collisionEvents) : \A j \in 1..(k - 1) : pair(j) # pair(k)}
        order == Ascending(first)
    IN [i \in 1..Len(order) |-> collisionEvents[order[i]]]

\* the events of an update of dt milliseconds of the entity world m
EventsOfUpdate(m, dt) ==
    LET moved == PhysicsSystem_update([m EXCEPT !.timeElapsed = @ + dt], dt)
    IN collectCollisionEvents(moved.components, Ascending(DOMAIN moved.components), 1)

\* C27: no collision event of an update pairs an entity with itself, and the spinners
\* leave an update of the entity world as they leave the resolution of one event for
\* each unordered pair of overlapping entities (one pickup, one elimination, or one
\* separation and impulse), not of one for (A, B) and a second for (B, A)
C27_UpdateStep ==
    HasModular /\ modularEngine.stateManager.currentPhase = "playing"
               /\ calls'.update = calls.update + 1
    => LET dt == now' - now
           moved == PhysicsSystem_update([modularEngine EXCEPT !.timeElapsed = @ + dt], dt)
           collisionEvents == EventsOfUpdate(modularEngine, dt)
           once == processCollisionEvents(moved, ResolvedOnce(collisionEvents), 1)
           expected == NetworkSystem_update(CollisionSystem_checkBoundaryCollisions(once), now')
       IN /\ \A k \in 1..Len(collisionEvents) :
                collisionEvents[k].entityA # collisionEvents[k].entityB
          /\ \A id \in DOMAIN modularEngine.components :
                IsSpinner(modularEngine.components[id])
                    => modularEngine'.components[id] = expected.components[id]

C27_PairsResolvedOnce == [][C27_UpdateStep]_vars

(***************************************************************************)
(* Properties of the reconciliation                                        *)
(***************************************************************************)
\* the entity of the local player, 0 when there is none
LocalEntity ==
    IF HasModular /\ "local_player" \in DOMAIN modularEngine.playerEntities
    THEN modularEngine.playerEntities["local_player"]
    ELSE 0

\* the step is an authoritative update for the predicted entity of the local player
\* whose acknowledged sequence number is the one of a buffered input frame
AcknowledgingStep ==
    /\ calls'.server = calls.server + 1
    /\ LocalEntity \in DOMAIN modularEngine.components
    /\ modularEngine.components[LocalEntity].clientPredicted
    /\ LET updates == modularEngine'.serverUpdates[LocalEntity]
       IN \E i \in 1..Len(BufferOf(modularEngine.inputBuffer, LocalEntity)) :
              modularEngine.inputBuffer[LocalEntity][i].sequenceNumber
                  = updates[Len(updates)].sequenceNumber

\* C28: an authoritative update for sequence s whose input frame is buffered drops every
\* buffered frame with sequence <= s and keeps every frame with sequence > s; when the
\* server position is farther than 5 pixels from the position buffered at s, position
\* and velocity become the server's with the kept frames re-applied in increasing
\* sequence order, and otherwise position and velocity are left unchanged
C28_AcknowledgeStep ==
    AcknowledgingStep
    => LET updates == modularEngine'.serverUpdates[LocalEntity]
           latestUpdate == updates[Len(updates)]
           inputBuffer == modularEngine.inputBuffer[LocalEntity]
           acknowledged == inputBuffer[findIndex(inputBuffer, latestUpdate.sequenceNumber, 1)]
           later == SelectSeq(inputBuffer,
                              LAMBDA f : f.sequenceNumber > latestUpdate.sequenceNumber)
           before == modularEngine.components[LocalEntity]
           after == modularEngine'.components[LocalEntity]
           corrected == reapplyInputs([before EXCEPT !.position = latestUpdate.position,
                                                     !.velocity = latestUpdate.velocity],
                                      later, 1)
       IN /\ modularEngine'.inputBuffer[LocalEntity] = later
          /\ \A i \in 1..(Len(later) - 1) : later[i].sequenceNumber < later[i + 1].sequenceNumber
          /\ IF Farther(latestUpdate.position, acknowledged.position, 5 * U)
             THEN after.position = corrected.position /\ after.velocity = corrected.velocity
             ELSE after.position = before.position /\ after.velocity = before.velocity

C28_Reconciliation == [][C28_AcknowledgeStep]_vars

\* the same for a buffer whose frames are all of the running game: their sequence
\* numbers increase
C28_RunningGameStep ==
    /\ LocalEntity \in DOMAIN modularEngine.components
    /\ \A i \in 1..(Len(BufferOf(modularEngine.inputBuffer, LocalEntity)) - 1) :
          modularEngine.inputBuffer[LocalEntity][i].sequenceNumber
              < modularEngine.inputBuffer[LocalEntity][i + 1].sequenceNumber
    => C28_AcknowledgeStep

C28_ReconciliationOfRunningGame == [][C28_RunningGameStep]_vars

\* an update has acknowledged the first of two buffered frames of the running game, far
\* from the position the server reports
C28_Reconciled ==
    /\ LocalEntity \in DOMAIN modularEngine.components
    /\ calls.server = 1 /\ calls.startGame = 1
    /\ modularEngine.components[LocalEntity].lastAcknowledged = 1
    /\ Len(BufferOf(modularEngine.inputBuffer, LocalEntity)) = 1
    /\ modularEngine.inputBuffer[LocalEntity][1].sequenceNumber = 2
    /\ modularEngine.serverUpdates[LocalEntity][1].position.x = Centre.x + 10 * U

(***************************************************************************)
(* Properties of the SpatialGrid                                           *)
(***************************************************************************)
\* the entities other than entityId, among `others`, whose circle overlaps its circle
Overlapping(entityId, others) ==
    {other \in others \ {entityId} :
        circleCollision(inserted[entityId], inserted[entityId].radius,
                        inserted[other], inserted[other].radius)}

\* C29: the entities returned for the probe of an entity contain every entity added to
\* the grid whose circle overlaps its circle, wherever the circles lie (negative
\* coordinates, borders of cells) and whatever their radii: the narrow phase finds among
\* them the pairs that the test of all pairs finds
C29_ProbeStep ==
    returned' # returned /\ returned'.call = "getNearbyEntities"
    => /\ Overlapping(returned'.entityId, 1..Len(inserted)) \subseteq returned'.nearby
       /\ Overlapping(returned'.entityId, returned'.nearby)
              = Overlapping(returned'.entityId, 1..Len(inserted))

C29_BroadPhaseComplete == [][C29_ProbeStep]_vars

\* the probe of a small entity right of the origin has returned a large entity whose
\* centre lies two cells to the left, beyond the cells of the probe
C29_FoundAcrossCells ==
    /\ returned.call = "getNearbyEntities"
    /\ Len(inserted) = 2
    /\ LET E == inserted[returned.entityId]
           other == 3 - returned.entityId
       IN /\ E.x = 0 /\ inserted[other].x = -160 * U /\ E.y = inserted[other].y
          /\ E.radius = 15 * (U \div 2) /\ inserted[other].radius = 170 * U
          /\ <<inserted[other].x \div cellSize, inserted[other].y \div cellSize>>
                 \notin GridCells(E.x, E.y, 2 * E.radius)
          /\ other \in Overlapping(returned.entityId, 1..Len(inserted))
          /\ other \in returned.nearby

(***************************************************************************)
(* Properties of the input history                                         *)
(***************************************************************************)
\* what the manager m answers about the inputs of playerId
InputHistory(m, playerId) ==
    [latest |-> getLatestInput(m, playerId),
     since |-> getInputsSince(m, playerId, 0),
     latency |-> estimatePlayerLatency(m, playerId)]

\* C30: recordInput for one player leaves getLatestInput, getInputsSince and
\* estimatePlayerLatency of every other player as they were
C30_RecordStep ==
    returned' # returned /\ returned'.call = "recordInput"
    => \A playerId \in LagPlayers \ {returned'.playerId} :
           InputHistory(lagCompensation', playerId) = InputHistory(lagCompensation, playerId)

C30_InputHistoryPerPlayer == [][C30_RecordStep]_vars

(***************************************************************************)
(* Properties of the physics step                                          *)
(***************************************************************************)
\* |velocity| <= limit
SpeedWithin(velocity, limit) ==
    velocity.x * velocity.x + velocity.y * velocity.y <= limit * limit

\* the spinners of the entity world
Spinners ==
    IF HasModular
    THEN {id \in DOMAIN modularEngine.components : IsSpinner(modularEngine.components[id])}
    ELSE {}

\* the alive players of the rooms in play, as pairs <<code, id>>
PlayersInPlay ==
    {ci \in Codes \X Sockets :
        /\ gameRooms[ci[1]] # NoRoom /\ gameRooms[ci[1]].isPlaying
        /\ ci[2] \in SeqToSet(gameRooms[ci[1]].gsPlayers)
        /\ gameRooms[ci[1]].pd[ci[2]].isAlive}

\* the same for the two engines of the client alone, to within the one unit (1/32 pixel
\* per second) by which the integer square root of the normalisation rounds
C31_ClientSpeedLimited ==
    /\ \A id \in Spinners : \A dt \in ClientDeltaMs :
          LET entity == modularEngine.components[id]
          IN SpeedWithin(updateEntityPhysics(entity, dt).velocity,
                         LimitedSpeed(entity.maxSpeed, entity.size) + 1)
    /\ HasLegacy =>
          \A dt \in ClientDeltaMs :
              SpeedWithin(updateSpinner(legacyEngine.spinner, dt).velocity,
                          LimitedSpeed(legacyEngine.spinner.maxSpeed,
                                       legacyEngine.spinner.size) + 1)

\* C31: the physics step of an actor, from any state of a game and for any elapsed time,
\* leaves the actor with a speed of at most maxSpeed x sizePenalty (which is at most
\* maxSpeed), in a room of the server, in the legacy engine and in the entity world
C31_SpeedLimited ==
    /\ \A ci \in PlayersInPlay : \A dt \in DeltaMs :
          LET spinner == gameRooms[ci[1]].pd[ci[2]].spinner
          IN SpeedWithin(updatePlayerSpinner(spinner, dt).velocity, spinner.maxSpeed)
    /\ C31_ClientSpeedLimited

\* elapsed times of a step, milliseconds: a tick of the server, a frame of the client
\* and a step after a pause of two and a half seconds
ElapsedMs == {20, 100, 2500}

\* the rotations after the physics step of every actor of the state, dt after the last
RotationsAfter(dt) ==
    {updatePlayerSpinner(gameRooms[ci[1]].pd[ci[2]].spinner, dt).rotation : ci \in PlayersInPlay}
    \cup {updateEntityPhysics(modularEngine.components[id], dt).rotation : id \in Spinners}
    \cup (IF HasLegacy THEN {updateSpinner(legacyEngine.spinner, dt).rotation} ELSE {})

\* the same for the steps of the client that come a frame after the last
C32_FramesWrapped ==
    \A id \in Spinners : \A dt \in ClientDeltaMs :
        updateEntityPhysics(modularEngine.components[id], dt).rotation \in 0..TURN

\* C32: the physics step of an actor, from any state of a game and for any elapsed time,
\* leaves the rotation of the actor within one turn, in a room of the server, in the
\* legacy engine and in the entity world
C32_RotationWrapped ==
    \A dt \in ElapsedMs : \A rotation \in RotationsAfter(dt) : rotation \in 0..TURN

(***************************************************************************)
(* Properties of the estimate of the latency                               *)
(***************************************************************************)
\* the places in the input buffer of the last SAMPLE_SIZE inputs of playerId
RecentInputs(playerId) ==
    LET own == {i \in 1..Len(lagCompensation.inputBuffer) :
                   lagCompensation.inputBuffer[i].playerId = playerId}
    IN {i \in own : Cardinality({j \in own : j > i}) < SAMPLE_SIZE}

\* the sum of (timestamp - clientTimestamp) over the inputs at `places`
RECURSIVE LatencySum(_)
LatencySum(places) ==
    IF places = {} THEN 0
    ELSE LET i == CHOOSE i \in places : TRUE
         IN lagCompensation.inputBuffer[i].timestamp
                - lagCompensation.inputBuffer[i].clientTimestamp + LatencySum(places \ {i})

\* C33: estimatePlayerLatency returns the mean of (timestamp - clientTimestamp) over the
\* last 10 recorded inputs of the player, 500 when the mean is above 500 and 10 when it
\* is below 10, and 50 when the player has no recorded input (the result is the
\* fraction sum / count)
C33_EstimateStep ==
    returned' # returned /\ returned'.call = "estimatePlayerLatency"
    => LET places == RecentInputs(returned'.playerId)
           n == Cardinality(places)
           total == LatencySum(places)
           result == returned'.result
       IN /\ result.count > 0
          /\ IF n = 0 THEN result.sum = DEFAULT_LATENCY * result.count
             ELSE IF total > MAX_LATENCY * n THEN result.sum = MAX_LATENCY * result.count
             ELSE IF total < MIN_LATENCY * n THEN result.sum = MIN_LATENCY * result.count
             ELSE result.sum * n = total * result.count

C33_MeanLatency == [][C33_EstimateStep]_vars

\* the estimate for a player with eleven inputs, the oldest 600 ms late and five of the
\* last ten 5 ms late: the mean of the last ten, 302.5 ms
C33_Estimated ==
    /\ returned.call = "estimatePlayerLatency" /\ returned.playerId = 1
    /\ Len(lagCompensation.inputBuffer) = SAMPLE_SIZE + 1
    /\ lagCompensation.inputBuffer[1].timestamp - lagCompensation.inputBuffer[1].clientTimestamp = 600
    /\ returned.result = [sum |-> 3025, count |-> SAMPLE_SIZE]

(***************************************************************************)
(* Properties of the GameEngineAdapter                                     *)
(***************************************************************************)
\* the engine the unified interface dispatches to: its methods test modularEngine first
DispatchedEngine ==
    IF HasModular THEN "modular" ELSE IF HasLegacy THEN "legacy" ELSE "none"

\* C34: the engine the unified interface dispatches to is the one of the current engine
\* type, at the construction of the adapter and after every switchEngine, and a call
\* of the interface changes no other engine
C34_StepOfActiveEngine ==
    /\ currentEngineType' # "none" => DispatchedEngine' = currentEngineType'
    /\ calls' # calls /\ currentEngineType = "legacy" => modularEngine' = modularEngine
    /\ calls' # calls /\ currentEngineType = "modular" => legacyEngine' = legacyEngine

C34_ActiveEngine == [][C34_StepOfActiveEngine]_vars

(***************************************************************************)
(* Properties of the GameStateManager                                      *)
(***************************************************************************)
\* C35: the transition history of the GameStateManager holds at most 10 entries after
\* any sequence of transitionTo and forceTransition
C35_HistoryBounded ==
    HasModular => Len(modularEngine.stateManager.transitionHistory) <= 10

\* the same for the transitions made with transitionTo: a transition that is recorded
\* leaves at most 10 entries, the oldest dropped first
C35_TransitionStep ==
    HasModular /\ "stateManager" \in DOMAIN modularEngine'
    => LET before == modularEngine.stateManager.transitionHistory
           after == modularEngine'.stateManager.transitionHistory
       IN Len(before) = 10 /\ after # before /\ Len(after) = 10
          => after = Append(Tail(before), after[10])

C35_OldestDropped == [][C35_TransitionStep]_vars

(***************************************************************************)
(* Properties of the state of a server room                                *)
(***************************************************************************)
\* C36: in every room that was constructed isPlaying is true exactly when the phase
\* is 'playing' and exactly when the tick-loop timer is active, and the room never
\* has more than one active timer
C36_PlayingPhaseTimer ==
    \A c \in Constructed :
        /\ gameRooms[c].isPlaying <=> gameRooms[c].phase = "playing"
        /\ gameRooms[c].isPlaying <=> gameRooms[c].gameLoopInterval
        /\ gameRooms[c].gameLoopInterval <=> gameRooms[c].timers > 0
        /\ gameRooms[c].timers <= 1

\* a game that was started and that checkGameOver has ended
C36_GameEnded ==
    \E c \in Constructed :
        /\ gameRooms[c].phase = "game_over"
        /\ ~gameRooms[c].isPlaying
        /\ gameRooms[c].timers = 0
        /\ gameRooms[c].ticks > 0

(***************************************************************************)
(* Properties of the membership of the connections                         *)
(***************************************************************************)
\* the registered rooms that hold the connection s as a player
RoomsOf(s) == {c \in rooms : s \in SeqToSet(gameRooms[c].players)}

\* C37: each connection is a player of at most one room, playerRooms maps it to exactly
\* that room, and a connection whose disconnect has been handled is a player of no room
C37_MembershipConsistent ==
    \A s \in Sockets :
        /\ Cardinality(RoomsOf(s)) <= 1
        /\ \A c \in RoomsOf(s) : playerRooms[s] = c
        /\ sockets[s] = "closed" => RoomsOf(s) = {}

(***************************************************************************)
(* Properties of the prediction buffers across games                       *)
(***************************************************************************)
\* the step is a resetToMenu, or a startGame that starts a game, of the modular engine
ClearingStep ==
    /\ HasModular /\ HasModular'
    /\ \/ calls'.resetToMenu = calls.resetToMenu + 1
       \/ calls'.startGame = calls.startGame + 1 /\ ClientPhase' = "playing"

\* C38: after resetToMenu or startGame, which clear the World and restart the entity
\* ids and the sequence numbers, the input buffer and the server updates that the
\* NetworkSystem keeps for every entity id are empty
C38_ClearStep ==
    ClearingStep
    => /\ \A id \in DOMAIN modularEngine'.inputBuffer : modularEngine'.inputBuffer[id] = <<>>
       /\ \A id \in DOMAIN modularEngine'.serverUpdates : modularEngine'.serverUpdates[id] = <<>>

C38_BuffersCleared == [][C38_ClearStep]_vars

(***************************************************************************)
(* Properties of the collision radius of the ECS engine                    *)
(***************************************************************************)
\* the spinners that the step of the modular engine makes larger
GrowingSpinners ==
    {id \in (DOMAIN modularEngine.components) \cap (DOMAIN modularEngine'.components) :
        /\ IsSpinner(modularEngine.components[id]) /\ IsSpinner(modularEngine'.components[id])
        /\ modularEngine'.components[id].size > modularEngine.components[id].size}

\* C39: after a dot pickup or the growth of an elimination the radius of the
\* CollisionComponent of the spinner is its current size / 2
C39_GrowStep ==
    HasModular /\ HasModular'
    => \A id \in GrowingSpinners :
           modularEngine'.components[id].radius = modularEngine'.components[id].size \div 2

C39_RadiusTracksSize == [][C39_GrowStep]_vars

(***************************************************************************)
(* Properties of the two player tables of a server room                    *)
(***************************************************************************)
\* C40: room.players and room.gameState.players hold the same player ids, and the
\* host of a room that is not empty is one of them
C40_PlayerTablesAgree ==
    \A c \in Constructed :
        /\ SeqToSet(gameRooms[c].players) = SeqToSet(gameRooms[c].gsPlayers)
        /\ Len(gameRooms[c].players) > 0 => gameRooms[c].host \in SeqToSet(gameRooms[c].players)

\* a game has ticked in a room that its first host has left and that still has players
C40_HostLeftDuringGame ==
    \E c \in rooms :
        /\ gameRooms[c].ticks > 0
        /\ Len(gameRooms[c].players) >= 1
        /\ Len(gameRooms[c].players) < joins + 1
        /\ gameRooms[c].host # gameRooms[c].players[Len(gameRooms[c].players)]
        /\ \E s \in Sockets :
              sockets[s] = "closed" /\ s < gameRooms[c].host /\ playerRooms[s] = 0

====
